---- MODULE Spec2Model ----
(***************************************************************************)
(* A model of the paragrafs library: the segmentation pipeline             *)
(* (cleanupIsolatedTokens, groupMarkedTokensIntoSegments,                  *)
(* mergeShortSegmentsWithPrevious), the ground-truth aligner               *)
(* (syncTokensWithGroundTruth and its helpers) and the hint miner          *)
(* (generateHintsFromTokens, generateHintsFromSegments).                   *)
(*                                                                         *)
(* Every library function is pure and synchronous, so each one is checked  *)
(* under a specification of its own: Init draws the arguments from bounded *)
(* sets and the actions run the function, one action per loop iteration or *)
(* per phase of the function.                                              *)
(*                                                                         *)
(* A text is a sequence of one-character strings, so that normalisation    *)
(* and punctuation tests work on characters as the regular expressions of  *)
(* the source do.  Seconds are integers; the aligner's inputs are whole    *)
(* multiples of Ticks so that its divisions are exact.                     *)
(***************************************************************************)
EXTENDS Integers, Sequences, FiniteSets, TLC

VARIABLES
    pc,                    \* position of the running function
    markedTokens,          \* argument of cleanupIsolatedTokens / groupMarkedTokensIntoSegments
    once,                  \* cleanupIsolatedTokens(markedTokens)
    twice,                 \* cleanupIsolatedTokens(once)
    maxSecondsPerSegment,  \* argument of groupMarkedTokensIntoSegments
    i,                     \* groupMarkedTokensIntoSegments: loop index (1-based)
    currentSegment,        \* groupMarkedTokensIntoSegments: the running buffer
    segmentStart,          \* groupMarkedTokensIntoSegments: null or a start time
    segmentEnd,            \* groupMarkedTokensIntoSegments: null or an end time
    segments,              \* groupMarkedTokensIntoSegments: the segments pushed so far
    closedBefore,          \* history: for each pushed segment, the input index that followed it
    mergeInput,            \* mergeShortSegmentsWithPrevious: the segments argument
    heap,                  \* the token arrays the segment objects point to
    heap0,                 \* the token arrays as they were before the call
    minWordsPerSegment,    \* argument of mergeShortSegmentsWithPrevious
    mi,                    \* mergeShortSegmentsWithPrevious: index of the segment being visited
    mergeResult,           \* mergeShortSegmentsWithPrevious: result
    mergedInputs,          \* history: indices of the input segments that were merged into prev
    tokens,                \* argument of syncTokensWithGroundTruth
    groundTruth,           \* argument of syncTokensWithGroundTruth, as whitespace-separated pieces
    groundTruthWords,      \* tokenizeGroundTruth(groundTruth)
    anchors,               \* findAnchors(tokens, groundTruthWords)
    anchorIndex,           \* processGaps: position in anchors of the for loop (1-based)
    syncResult,            \* processGaps/processFinalTail: result
    lastTokenIndex,        \* processGaps: lastTokenIndex (0-based, -1 at the start)
    lastGtIndex,           \* processGaps: lastGtIndex (0-based, -1 at the start)
    applied,               \* applyGroundTruthToSegment(...).tokens
    hintTokens,            \* argument of generateHintsFromTokens
    options,               \* resolved options of generateHintsFromTokens
    normalizedTokens,      \* normalizeTokenStream(tokens, options)
    counts,                \* countNgrams: a Map, as the sequence of its entries in insertion order
    candidates,            \* collectCandidateStats: a Map, as the sequence of its entries
    removable,             \* applyClosedDedupSafe: the set of removable keys
    removedBy,             \* history: the pairs <<longKey, subKey>> that put subKey in removable
    hints,                 \* generateHintsFromTokens / generateHintsFromSegments: the returned list
    hintSegments,          \* argument of generateHintsFromSegments: the token list of each segment
    combined,              \* generateHintsFromSegments: a Map, as the sequence of its values
    segmentIndex,          \* generateHintsFromSegments: position of the for loop (1-based)
    combineInput,          \* argument of markAndCombineSegments: the token list of each segment
    markInput,             \* markTokensWithDividers: the tokens argument
    markOptions,           \* markTokensWithDividers: fillers, gapThreshold and hints
    hintPhrases,           \* the phrases, as word lists, the hints were created from
    idx,                   \* markTokensWithDividers: loop index (0-based)
    marked,                \* markTokensWithDividers: the marked array
    prevEnd,               \* markTokensWithDividers: null or the end of the last non-filler token
    emitted,               \* history: for each visited token, the elements pushed for it
    formatInput,           \* argument of both formatters: the marked segments
    maxSecondsPerLine,     \* argument of both formatters, NULL when it is not given
    fi,                    \* both formatters: index of the segment being formatted (1-based)
    lines,                 \* formatSegmentsToTimestampedTranscript: lines
    lineBuffers,           \* history: for each pushed line, its segment and the buffer it was made of
    formatted,             \* mapSegmentsIntoFormattedSegments: the segments mapped so far
    partBuffers,           \* history: for each text part pushed, its segment and its buffer
    transcript,            \* formatSegmentsToTimestampedTranscript: the returned string
    lcsA,                  \* a of buildLcsTable
    lcsB,                  \* b of buildLcsTable
    abTable,               \* buildLcsTable(a, b)
    abMatches              \* extractLcsMatches(table, a, b)

vars == <<pc, markedTokens, once, twice, maxSecondsPerSegment, i, currentSegment,
          segmentStart, segmentEnd, segments, closedBefore, mergeInput, heap, heap0,
          minWordsPerSegment, mi, mergeResult, mergedInputs, tokens, groundTruth,
          groundTruthWords, anchors, anchorIndex, syncResult, lastTokenIndex, lastGtIndex,
          applied, hintTokens, options, normalizedTokens, counts, candidates, removable,
          removedBy, hints, hintSegments, combined, segmentIndex, combineInput, markInput, markOptions, hintPhrases, idx, marked,
          prevEnd, emitted, formatInput, maxSecondsPerLine, fi, lines, lineBuffers, formatted,
          partBuffers, transcript, lcsA, lcsB, abTable, abMatches>>

cleanupVars == <<markedTokens, once, twice>>
groupVars == <<maxSecondsPerSegment, i, currentSegment, segmentStart, segmentEnd,
               segments, closedBefore>>
mergeVars == <<mergeInput, heap, heap0, minWordsPerSegment, mi, mergeResult, mergedInputs>>
syncVars == <<tokens, groundTruth, groundTruthWords, anchors, anchorIndex, syncResult,
              lastTokenIndex, lastGtIndex, applied>>
segmentVars == <<hintSegments, combined, segmentIndex>>
hintVars == <<hintTokens, options, normalizedTokens, counts, candidates, removable,
              removedBy, hints, segmentVars>>
markVars == <<combineInput, markInput, markOptions, hintPhrases, idx, marked, prevEnd, emitted>>
formatVars == <<formatInput, maxSecondsPerLine, fi, lines, lineBuffers, formatted, partBuffers,
                transcript>>
lcsVars == <<lcsA, lcsB, abTable, abMatches>>

-----------------------------------------------------------------------------
(* Bounds of the model *)

MaxMarked == 5      \* longest marked-token sequence given to the cleaner and the grouper
MaxSegments == 3    \* most segments given to the merger
MaxSegmentLen == 2  \* most elements in one segment given to the merger
MaxMinWords == 3    \* largest minWordsPerSegment
MaxTokens == 3      \* most tokens given to the aligner
MaxGtPieces == 4    \* most whitespace-separated pieces in a ground truth
MaxStream == 5      \* most tokens given to the hint miner
MaxCap == 2         \* largest occurrence cap tried
MaxMarkTokens == 3  \* most tokens given to the marker
MaxHintPhrases == 2 \* most phrases the hints are created from
MaxCombineTokens == 4 \* most tokens, over all segments, given to markAndCombineSegments
MaxFormatElements == 4 \* most elements, over all segments, given to the formatters
MaxLcsLen == 3      \* longest word list given to buildLcsTable
MaxPhrase == 3      \* most tokens in the phrase the miner hears repeated
MaxRepeats == 2     \* most times the phrase is said
MaxMineSegments == 2 \* most segments given to generateHintsFromSegments
MaxMineSegmentLen == 3 \* most tokens in one of those segments

-----------------------------------------------------------------------------
(* Generic helpers *)

SeqsUpTo(S, n) == UNION {[1..k -> S] : k \in 0..n}

NonEmptySeqsUpTo(S, n) == UNION {[1..k -> S] : k \in 1..n}

Last(s) == s[Len(s)]

Front(s) == SubSeq(s, 1, Len(s) - 1)

Max(a, b) == IF a >= b THEN a ELSE b

Min(a, b) == IF a <= b THEN a ELSE b

Range(s) == {s[k] : k \in 1..Len(s)}

\* Array.prototype.slice(from, to) with 0-based, end-exclusive indices
Slice(s, from, to) == SubSeq(s, from + 1, Min(to, Len(s)))

\* null of the source, for a number that is not there yet
NULL == -1

-----------------------------------------------------------------------------
(* src/src/utils/constants.ts and the MarkedToken union of src/src/types.ts *)

SEGMENT_BREAK == [marker |-> "SEGMENT_BREAK"]

ALWAYS_BREAK == [marker |-> "ALWAYS_BREAK"]

\* what an array yields when read past its end
UNDEFINED == [marker |-> "undefined"]

At(s, k) == IF k >= 1 /\ k <= Len(s) THEN s[k] ELSE UNDEFINED

\* t !== SEGMENT_BREAK && t !== ALWAYS_BREAK
IsWordToken(t) == t # SEGMENT_BREAK /\ t # ALWAYS_BREAK

IsDivider(t) == t = SEGMENT_BREAK \/ t = ALWAYS_BREAK

\* tokens.filter((t) => t !== SEGMENT_BREAK && t !== ALWAYS_BREAK)
RECURSIVE WordTokensOf(_)
WordTokensOf(ts) ==
    IF ts = <<>> THEN <<>>
    ELSE (IF IsWordToken(Head(ts)) THEN <<Head(ts)>> ELSE <<>>) \o WordTokensOf(Tail(ts))

\* A marked-token sequence written as a shape: "w" a word token, "S" a
\* SEGMENT_BREAK, "A" an ALWAYS_BREAK.  The word at position k of the whole
\* input starts at 2k and ends at 2k+1, so the tokens are ordered and do not
\* overlap, and no two of them are equal.
MarkedOfShape(shape, offset) ==
    [k \in 1..Len(shape) |->
        CASE shape[k] = "S" -> SEGMENT_BREAK
          [] shape[k] = "A" -> ALWAYS_BREAK
          [] OTHER -> [start |-> 2 * (offset + k), end |-> 2 * (offset + k) + 1,
                       text |-> <<"a">>]]

MarkedInputs == {MarkedOfShape(shape, 0) : shape \in SeqsUpTo({"w", "S", "A"}, MaxMarked)}

-----------------------------------------------------------------------------
(* cleanupIsolatedTokens, src/src/transcript.ts *)

\* the second branch: the break would leave the next token by itself
SkipsIsolatingBreakNoSegmentBreak(current, future) ==
    current = SEGMENT_BREAK /\ (future = ALWAYS_BREAK \/ future = UNDEFINED)

SkipsIsolatingBreak(current, future) ==
    current = SEGMENT_BREAK
        /\ (future = SEGMENT_BREAK \/ future = ALWAYS_BREAK \/ future = UNDEFINED)

\* the first branch without the test of the current element
SkipsBreakBeforeBreakAnyCurrent(current, next) ==
    next = ALWAYS_BREAK \/ next = SEGMENT_BREAK

\* the first branch: a break is placed right after this one anyway
SkipsBreakBeforeBreak(current, next) ==
    current = SEGMENT_BREAK /\ (next = ALWAYS_BREAK \/ next = SEGMENT_BREAK)

\* one iteration of the for loop: the result array after visiting index k
cleanupVisit(m, k, result) ==
    LET current == m[k]
        next == At(m, k + 1)
        future == At(m, k + 2)
    IN  IF SkipsBreakBeforeBreak(current, next)
            THEN result
        ELSE IF SkipsIsolatingBreak(current, future)
            THEN result
        ELSE IF current = SEGMENT_BREAK /\ At(result, Len(result)) = SEGMENT_BREAK
            THEN result
        ELSE Append(result, current)

RECURSIVE cleanupFrom(_, _, _)
cleanupFrom(m, k, result) ==
    IF k > Len(m) THEN result
    ELSE cleanupFrom(m, k + 1, cleanupVisit(m, k, result))

cleanupIsolatedTokens(m) == cleanupFrom(m, 1, <<>>)

-----------------------------------------------------------------------------
(* groupMarkedTokensIntoSegments, src/src/transcript.ts *)

MaxSecondsValues == {-1, 0, 2, 4}

\* the test that closes the running segment, without the look-ahead
ClosesSegmentOnDurationOnly(duration, maxSeconds, nextToken) == duration > maxSeconds

\* duration > maxSecondsPerSegment && nextIsDivider
ClosesSegment(duration, maxSeconds, nextToken) ==
    duration > maxSeconds /\ (nextToken = SEGMENT_BREAK \/ nextToken = ALWAYS_BREAK)

\* the start of the running segment, taken again from every word token
SegmentStartAfterOverwriting(token, start) ==
    IF IsWordToken(token) THEN token.start ELSE start

\* if (segmentStart === null) segmentStart = token.start, for a word token
SegmentStartAfter(token, start) ==
    IF IsWordToken(token) /\ start = NULL THEN token.start ELSE start

\* a grouper that forgets the buffer left over after the loop
FlushesTrailingForgotten(buffer, start, end) == FALSE

\* currentSegment.length > 0 && segmentStart !== null && segmentEnd !== null
FlushesTrailing(buffer, start, end) == Len(buffer) > 0 /\ start # NULL /\ end # NULL

\* one iteration of the for loop
GroupStep ==
    /\ pc = "group"
    /\ i <= Len(markedTokens)
    /\ LET token == markedTokens[i]
           newStart == SegmentStartAfter(token, segmentStart)
           newEnd == IF IsWordToken(token) THEN token.end ELSE segmentEnd
           buffer == Append(currentSegment, token)
           duration == IF newStart # NULL /\ newEnd # NULL THEN newEnd - newStart ELSE 0
       IN  IF ClosesSegment(duration, maxSecondsPerSegment, At(markedTokens, i + 1))
           THEN /\ segments' = Append(segments,
                                      [end |-> newEnd, start |-> newStart, tokens |-> buffer])
                /\ closedBefore' = Append(closedBefore, i + 1)
                /\ currentSegment' = <<>>
                /\ segmentStart' = NULL
                /\ segmentEnd' = NULL
           ELSE /\ currentSegment' = buffer
                /\ segmentStart' = newStart
                /\ segmentEnd' = newEnd
                /\ UNCHANGED <<segments, closedBefore>>
    /\ i' = i + 1
    /\ UNCHANGED <<pc, markedTokens, once, twice, maxSecondsPerSegment>>
    /\ UNCHANGED <<mergeVars, syncVars, hintVars,
                   markVars, formatVars, lcsVars>>

\* after the loop: the trailing buffer is pushed when it holds a word token
GroupFlush ==
    /\ pc = "group"
    /\ i > Len(markedTokens)
    /\ IF FlushesTrailing(currentSegment, segmentStart, segmentEnd)
       THEN /\ segments' = Append(segments, [end |-> segmentEnd, start |-> segmentStart,
                                             tokens |-> currentSegment])
            /\ closedBefore' = Append(closedBefore, i)
       ELSE UNCHANGED <<segments, closedBefore>>
    /\ pc' = "grouped"
    /\ UNCHANGED <<markedTokens, once, twice, maxSecondsPerSegment, i, currentSegment,
                   segmentStart, segmentEnd>>
    /\ UNCHANGED <<mergeVars, syncVars, hintVars,
                   markVars, formatVars, lcsVars>>

-----------------------------------------------------------------------------
(* mergeShortSegmentsWithPrevious, src/src/transcript.ts                   *)
(*                                                                         *)
(* A segment object is [start, end, ref]: ref names the token array the    *)
(* object points to, and heap[ref] is that array.  result.push({...segment})*)
(* copies start and end and shares the array; prev.tokens.push(...) writes *)
(* to the shared array.                                                    *)

\* the merge test with the comparison turned around
MergesIntoPreviousWhenLong(wordCount, minWords, resultLength) ==
    wordCount >= minWords /\ resultLength > 0

\* wordTokens.length < minWordsPerSegment && result.length > 0
MergesIntoPrevious(wordCount, minWords, resultLength) ==
    wordCount < minWords /\ resultLength > 0

\* one iteration of the for loop
MergeStep ==
    /\ pc = "merge"
    /\ mi <= Len(mergeInput)
    /\ LET segment == mergeInput[mi]
           wordTokens == WordTokensOf(heap[segment.ref])
       IN  IF MergesIntoPrevious(Len(wordTokens), minWordsPerSegment, Len(mergeResult))
           THEN LET prev == Last(mergeResult)
                IN  /\ heap' = [heap EXCEPT ![prev.ref] = @ \o heap[segment.ref]]
                    /\ mergeResult' = [mergeResult EXCEPT ![Len(mergeResult)].end = segment.end]
                    /\ mergedInputs' = mergedInputs \cup {mi}
           ELSE /\ mergeResult' = Append(mergeResult, segment)
                /\ UNCHANGED <<heap, mergedInputs>>
    /\ mi' = mi + 1
    /\ UNCHANGED <<pc, mergeInput, heap0, minWordsPerSegment>>
    /\ UNCHANGED <<cleanupVars, groupVars, syncVars, hintVars,
                   markVars, formatVars, lcsVars>>

\* return result
MergeReturn ==
    /\ pc = "merge"
    /\ mi > Len(mergeInput)
    /\ pc' = "merged"
    /\ UNCHANGED <<mergeVars, cleanupVars, groupVars, syncVars, hintVars,
                   markVars, formatVars, lcsVars>>

\* the tokens of a segment object
TokensOf(segment) == heap[segment.ref]

\* A segment of the argument, from a shape: its start and end are those of
\* its first and last word token, as the grouper leaves them.
SegmentShapes ==
    {shape \in NonEmptySeqsUpTo({"w", "S", "A"}, MaxSegmentLen) :
        \E k \in 1..Len(shape) : shape[k] = "w"}

SegmentArrays(shapes) ==
    [k \in 1..Len(shapes) |-> MarkedOfShape(shapes[k], k * MaxSegmentLen)]

SegmentObjects(arrays) ==
    [k \in 1..Len(arrays) |->
        LET words == WordTokensOf(arrays[k])
        IN  [start |-> words[1].start, end |-> Last(words).end, ref |-> k]]

-----------------------------------------------------------------------------
(* src/src/utils/textUtils.ts                                              *)
(*                                                                         *)
(* The characters of the model: letters; "." for the sentence punctuation  *)
(* of isEndingWithPunctuation, which is also \p{P}; "," for punctuation    *)
(* that does not end a sentence; "~" for an Arabic diacritic (a combining  *)
(* mark, \p{Mn}); " " for white space.                                     *)

SentencePunctuation == {"."}

PunctuationOrSymbol == {".", ","}

CombiningMarks == {"~"}

WhiteSpace == {" "}

\* /[.?!]$/.test(text), with the Arabic question mark, the Arabic semicolon and the ellipsis
isEndingWithPunctuation(text) == Len(text) > 0 /\ Last(text) \in SentencePunctuation

\* .replace(/\p{Mn}/gu, '') and .replace(/[\u064B-\u065F]/g, '')
RECURSIVE RemoveMarks(_)
RemoveMarks(w) ==
    IF w = <<>> THEN <<>>
    ELSE (IF Head(w) \in CombiningMarks THEN <<>> ELSE <<Head(w)>>) \o RemoveMarks(Tail(w))

\* .replace(/^[\p{P}\p{S}\p{Cf}]+/u, '')
RECURSIVE StripLeading(_)
StripLeading(w) ==
    IF w # <<>> /\ Head(w) \in PunctuationOrSymbol THEN StripLeading(Tail(w)) ELSE w

\* .replace(/[\p{P}\p{S}\p{Cf}]+$/u, '')
RECURSIVE StripTrailing(_)
StripTrailing(w) ==
    IF w # <<>> /\ Last(w) \in PunctuationOrSymbol THEN StripTrailing(Front(w)) ELSE w

normalizeWord(w) == StripTrailing(StripLeading(RemoveMarks(w)))

\* groundTruth.trim().split(/\s+/).map((t) => t.trim()).filter(Boolean):
\* the maximal runs of characters that are not white space
RECURSIVE SplitOnWhiteSpace(_, _)
SplitOnWhiteSpace(text, piece) ==
    IF text = <<>> THEN (IF piece = <<>> THEN <<>> ELSE <<piece>>)
    ELSE IF Head(text) \in WhiteSpace
         THEN (IF piece = <<>> THEN <<>> ELSE <<piece>>) \o SplitOnWhiteSpace(Tail(text), <<>>)
         ELSE SplitOnWhiteSpace(Tail(text), Append(piece, Head(text)))

\* /^[\p{P}\p{S}]+$/u.test(token)
IsOnlyPunctuation(token) ==
    token # <<>> /\ \A k \in 1..Len(token) : token[k] \in PunctuationOrSymbol

\* the for loop of tokenizeGroundTruth
RECURSIVE AttachPunctuation(_, _)
AttachPunctuation(rawTokens, result) ==
    IF rawTokens = <<>> THEN result
    ELSE LET token == Head(rawTokens)
         IN  IF Len(result) > 0 /\ IsOnlyPunctuation(token)
             THEN AttachPunctuation(Tail(rawTokens),
                                    [result EXCEPT ![Len(result)] = @ \o token])
             ELSE AttachPunctuation(Tail(rawTokens), Append(result, token))

tokenizeGroundTruth(text) == AttachPunctuation(SplitOnWhiteSpace(text, <<>>), <<>>)

\* pieces.join(' '), to write a ground truth
RECURSIVE JoinWithSpace(_)
JoinWithSpace(pieces) ==
    IF pieces = <<>> THEN <<>>
    ELSE IF Len(pieces) = 1 THEN pieces[1]
    ELSE pieces[1] \o <<" ">> \o JoinWithSpace(Tail(pieces))

-----------------------------------------------------------------------------
(* buildLcsTable and extractLcsMatches, src/unnamed/part_005 (lcs.ts)      *)

\* a table whose matching cells count on from the cell above
buildLcsTableFromAbove(a, b) ==
    LET table[r \in 0..Len(a), c \in 0..Len(b)] ==
            IF r = 0 \/ c = 0 THEN 0
            ELSE IF a[r] = b[c] THEN table[r - 1, c] + 1
            ELSE Max(table[r - 1, c], table[r, c - 1])
    IN  table

\* table[r, c] is table[r][c] of the source: the length of a longest common
\* subsequence of the first r elements of a and the first c elements of b
buildLcsTable(a, b) ==
    LET table[r \in 0..Len(a), c \in 0..Len(b)] ==
            IF r = 0 \/ c = 0 THEN 0
            ELSE IF a[r] = b[c] THEN table[r - 1, c - 1] + 1
            ELSE Max(table[r - 1, c], table[r, c - 1])
    IN  table

\* Map.prototype.set: a Map<number, number> is a function from its keys
MapSet(map, key, value) ==
    [k \in (DOMAIN map) \cup {key} |-> IF k = key THEN value ELSE map[k]]

EmptyMap == [k \in {} |-> 0]

\* the while loop of extractLcsMatches; r and c are i and j of the source,
\* the keys and values of matches are 0-based indices
RECURSIVE ExtractFrom(_, _, _, _, _, _)
ExtractFrom(table, original, ground, r, c, matches) ==
    IF ~(r > 0 /\ c > 0) THEN matches
    ELSE IF original[r] = ground[c]
         THEN ExtractFrom(table, original, ground, r - 1, c - 1,
                          MapSet(matches, r - 1, c - 1))
    ELSE IF table[r - 1, c] >= table[r, c - 1]
         THEN ExtractFrom(table, original, ground, r - 1, c, matches)
    ELSE ExtractFrom(table, original, ground, r, c - 1, matches)

extractLcsMatches(table, original, ground) ==
    ExtractFrom(table, original, ground, Len(original), Len(ground), EmptyMap)

-----------------------------------------------------------------------------
(* syncTokensWithGroundTruth and its helpers, src/unnamed/part_008         *)
(* (utils/transcriptUtils.ts)                                              *)

\* the unit of time of the aligner's inputs: every division of
\* createInsertionToken is by a count of at most MaxGtPieces
RECURSIVE Factorial(_)
Factorial(n) == IF n <= 1 THEN 1 ELSE n * Factorial(n - 1)

Ticks == Factorial(MaxGtPieces)

\* prevToken === null
NoToken == [marker |-> "null"]

\* the gap taken to start at 0 whatever the previous token
createInsertionTokenFromZero(text, gtGap, gtGapIndex, nextToken, prevToken, tokenGap) ==
    LET gapStartTime == 0
        gapEndTime == nextToken.start
        timeAvailable == Max(0, gapEndTime - gapStartTime)
        itemsToInsert == Len(gtGap) - Len(tokenGap)
        timePerItem == IF itemsToInsert > 0 THEN timeAvailable \div itemsToInsert ELSE 0
        insertionIndex == gtGapIndex - Len(tokenGap)
        start == gapStartTime + insertionIndex * timePerItem
    IN  [end |-> start + timePerItem, start |-> start, text |-> text, isUnknown |-> FALSE]

createInsertionToken(text, gtGap, gtGapIndex, nextToken, prevToken, tokenGap) ==
    LET gapStartTime == IF prevToken = NoToken THEN 0 ELSE prevToken.end
        gapEndTime == nextToken.start
        timeAvailable == Max(0, gapEndTime - gapStartTime)
        itemsToInsert == Len(gtGap) - Len(tokenGap)
        timePerItem == IF itemsToInsert > 0 THEN timeAvailable \div itemsToInsert ELSE 0
        insertionIndex == gtGapIndex - Len(tokenGap)
        start == gapStartTime + insertionIndex * timePerItem
    IN  [end |-> start + timePerItem, start |-> start, text |-> text, isUnknown |-> FALSE]

\* the spread without the text: the token keeps its own text
GroundedKeepingText(token, text, isUnknown) ==
    [end |-> token.end, start |-> token.start, text |-> token.text, isUnknown |-> isUnknown]

\* { ...token, text } and { ...token, isUnknown: true }
Grounded(token, text, isUnknown) ==
    [end |-> token.end, start |-> token.start, text |-> text, isUnknown |-> isUnknown]

\* lcsMatches.set(0, 0) left out
ForcedMatchesLastOnly(lcsMatches, tokenCount, wordCount) ==
    IF tokenCount > 1 /\ wordCount > 1
    THEN MapSet(lcsMatches, tokenCount - 1, wordCount - 1)
    ELSE lcsMatches

\* lcsMatches.set(0, 0); if both are longer than 1, lcsMatches.set(last, last)
ForcedMatches(lcsMatches, tokenCount, wordCount) ==
    LET first == MapSet(lcsMatches, 0, 0)
    IN  IF tokenCount > 1 /\ wordCount > 1
        THEN MapSet(first, tokenCount - 1, wordCount - 1)
        ELSE first

\* Array.from(map.entries()).sort((a, b) => a[0] - b[0]): the keys of a Map
\* are distinct, so the order of insertion does not show after the sort
RECURSIVE SortedEntries(_)
SortedEntries(map) ==
    IF DOMAIN map = {} THEN <<>>
    ELSE LET least == CHOOSE k \in DOMAIN map : \A other \in DOMAIN map : k <= other
         IN  <<<<least, map[least]>>>>
                 \o SortedEntries([k \in (DOMAIN map) \ {least} |-> map[k]])

\* a filter that keeps every entry
KeepsEveryAnchor(sorted, k) == TRUE

\* (v, i, a) => !i || v[1] > a[i - 1][1], with a the sorted array and k = i + 1
KeepsAnchor(sorted, k) == k = 1 \/ sorted[k][2] > sorted[k - 1][2]

RECURSIVE FilterAnchors(_, _)
FilterAnchors(sorted, k) ==
    IF k > Len(sorted) THEN <<>>
    ELSE (IF KeepsAnchor(sorted, k) THEN <<sorted[k]>> ELSE <<>>)
             \o FilterAnchors(sorted, k + 1)

NormalizedTexts(ts) == [k \in 1..Len(ts) |-> normalizeWord(ts[k].text)]

NormalizedWords(words) == [k \in 1..Len(words) |-> normalizeWord(words[k])]

\* lcsMatches of findAnchors after the two forced entries
anchorCandidates(ts, words) ==
    LET normalized == NormalizedTexts(ts)
        normalizedGTWords == NormalizedWords(words)
        lcsTable == buildLcsTable(normalized, normalizedGTWords)
        lcsMatches == extractLcsMatches(lcsTable, normalized, normalizedGTWords)
    IN  ForcedMatches(lcsMatches, Len(ts), Len(words))

\* the [tokenIndex, gtIndex] pairs, 0-based as in the source
findAnchors(ts, words) == FilterAnchors(SortedEntries(anchorCandidates(ts, words)), 1)

\* the while loop of processGaps for one anchor: what it pushes on result
RECURSIVE GapTokens(_, _, _, _, _, _)
GapTokens(tokenGap, gtGap, tokenGapIndex, gtGapIndex, nextToken, prevToken) ==
    IF ~(tokenGapIndex < Len(tokenGap) \/ gtGapIndex < Len(gtGap)) THEN <<>>
    ELSE IF tokenGapIndex >= Len(tokenGap)
         THEN <<createInsertionToken(gtGap[gtGapIndex + 1], gtGap, gtGapIndex,
                                     nextToken, prevToken, tokenGap)>>
                  \o GapTokens(tokenGap, gtGap, tokenGapIndex, gtGapIndex + 1,
                               nextToken, prevToken)
    ELSE IF gtGapIndex >= Len(gtGap)
         THEN <<Grounded(tokenGap[tokenGapIndex + 1], tokenGap[tokenGapIndex + 1].text, TRUE)>>
                  \o GapTokens(tokenGap, gtGap, tokenGapIndex + 1, gtGapIndex,
                               nextToken, prevToken)
    ELSE <<Grounded(tokenGap[tokenGapIndex + 1], gtGap[gtGapIndex + 1], FALSE)>>
             \o GapTokens(tokenGap, gtGap, tokenGapIndex + 1, gtGapIndex + 1,
                          nextToken, prevToken)

\* the tokens copied without the flag set
AllUnknownNotFlagged(ts) == [k \in 1..Len(ts) |-> Grounded(ts[k], ts[k].text, FALSE)]

\* tokens.map((token) => ({ ...token, isUnknown: true }))
AllUnknown(ts) == [k \in 1..Len(ts) |-> Grounded(ts[k], ts[k].text, TRUE)]

\* result.tokens.filter((t) => !t.isUnknown)
RECURSIVE KnownTokens(_)
KnownTokens(ts) ==
    IF ts = <<>> THEN <<>>
    ELSE (IF ~Head(ts).isUnknown THEN <<Head(ts)>> ELSE <<>>) \o KnownTokens(Tail(ts))

\* syncTokensWithGroundTruth up to the call of findAnchors
SyncTokenize ==
    /\ pc = "sync"
    /\ IF Len(tokens) = 0
       THEN /\ syncResult' = <<>>
            /\ pc' = "synced"
            /\ UNCHANGED groundTruthWords
       ELSE /\ groundTruthWords' = tokenizeGroundTruth(groundTruth)
            /\ IF Len(groundTruthWords') = 0
               THEN /\ syncResult' = AllUnknown(tokens)
                    /\ pc' = "synced"
               ELSE /\ syncResult' = <<>>
                    /\ pc' = "findAnchors"
    /\ UNCHANGED <<tokens, groundTruth, anchors, anchorIndex, lastTokenIndex, lastGtIndex,
                   applied>>
    /\ UNCHANGED <<cleanupVars, groupVars, mergeVars, hintVars,
                   markVars, formatVars, lcsVars>>

SyncFindAnchors ==
    /\ pc = "findAnchors"
    /\ anchors' = findAnchors(tokens, groundTruthWords)
    /\ anchorIndex' = 1
    /\ pc' = "processGaps"
    /\ UNCHANGED <<tokens, groundTruth, groundTruthWords, syncResult, lastTokenIndex,
                   lastGtIndex, applied>>
    /\ UNCHANGED <<cleanupVars, groupVars, mergeVars, hintVars,
                   markVars, formatVars, lcsVars>>

\* one iteration of the for loop of processGaps
SyncProcessGap ==
    /\ pc = "processGaps"
    /\ anchorIndex <= Len(anchors)
    /\ LET currentTokenIndex == anchors[anchorIndex][1]
           currentGtIndex == anchors[anchorIndex][2]
           tokenGap == Slice(tokens, lastTokenIndex + 1, currentTokenIndex)
           gtGap == Slice(groundTruthWords, lastGtIndex + 1, currentGtIndex)
           prevToken == IF lastTokenIndex = -1 THEN NoToken ELSE tokens[lastTokenIndex + 1]
           nextToken == tokens[currentTokenIndex + 1]
       IN  /\ syncResult' = syncResult
                  \o GapTokens(tokenGap, gtGap, 0, 0, nextToken, prevToken)
                  \o <<Grounded(nextToken, groundTruthWords[currentGtIndex + 1], FALSE)>>
           /\ lastTokenIndex' = currentTokenIndex
           /\ lastGtIndex' = currentGtIndex
    /\ anchorIndex' = anchorIndex + 1
    /\ UNCHANGED <<pc, tokens, groundTruth, groundTruthWords, anchors, applied>>
    /\ UNCHANGED <<cleanupVars, groupVars, mergeVars, hintVars,
                   markVars, formatVars, lcsVars>>

\* the return without the tokens after the last anchor
SyncFinalTailIgnoringTail ==
    /\ pc = "processGaps"
    /\ anchorIndex > Len(anchors)
    /\ pc' = "synced"
    /\ UNCHANGED <<tokens, groundTruth, groundTruthWords, anchors, anchorIndex, syncResult,
                   lastTokenIndex, lastGtIndex, applied>>
    /\ UNCHANGED <<cleanupVars, groupVars, mergeVars, hintVars,
                   markVars, formatVars, lcsVars>>

\* processFinalTail, and the return of syncTokensWithGroundTruth
SyncFinalTail ==
    /\ pc = "processGaps"
    /\ anchorIndex > Len(anchors)
    /\ LET finalTokenGap == Slice(tokens, lastTokenIndex + 1, Len(tokens))
           finalGtGap == Slice(groundTruthWords, lastGtIndex + 1, Len(groundTruthWords))
       IN  IF Len(finalGtGap) > 0
           THEN UNCHANGED syncResult
           ELSE syncResult' = syncResult \o AllUnknown(finalTokenGap)
    /\ pc' = "synced"
    /\ UNCHANGED <<tokens, groundTruth, groundTruthWords, anchors, anchorIndex,
                   lastTokenIndex, lastGtIndex, applied>>
    /\ UNCHANGED <<cleanupVars, groupVars, mergeVars, hintVars,
                   markVars, formatVars, lcsVars>>

\* applyGroundTruthToSegment, src/src/transcript.ts: the tokens of the result
ApplyGroundTruth ==
    /\ pc = "synced"
    /\ applied' = KnownTokens(syncResult)
    /\ pc' = "applied"
    /\ UNCHANGED <<tokens, groundTruth, groundTruthWords, anchors, anchorIndex, syncResult,
                   lastTokenIndex, lastGtIndex>>
    /\ UNCHANGED <<cleanupVars, groupVars, mergeVars, hintVars,
                   markVars, formatVars, lcsVars>>

\* The arguments of the aligner: token k lasts one second and starts
\* gap seconds after token k - 1 ends.
TokenTexts == {<<"a">>, <<"b">>, <<"c">>}

GroundTruthPieces == {<<"a", "~">>, <<"b", ".">>, <<"d">>, <<".">>}

TokensOfTexts(texts, gap) ==
    [k \in 1..Len(texts) |->
        [start |-> (k - 1) * (1 + gap) * Ticks,
         end |-> ((k - 1) * (1 + gap) + 1) * Ticks,
         text |-> texts[k]]]

-----------------------------------------------------------------------------
(* generateHintsFromTokens, src/unnamed/part_006 (utils/hints.ts)          *)
(*                                                                         *)
(* A Map is the sequence of its entries in insertion order.  A key is the  *)
(* tuple of normalized words itself: makeKey is JSON.stringify and         *)
(* parseKey is JSON.parse, which are inverse on arrays of strings.         *)

OCCURRENCE_CAP_FOR_DEDUPE == 5000

SURFACE_VARIANTS_CAP == 5

\* Number.POSITIVE_INFINITY, for topK and for firstOccurrenceIndex
Infinity == -1

\* "A" stands for an alef carrying a hamza, "a" for the bare alef, "_" for
\* the tatweel; "y" would be the ya and has no variant in the model
RECURSIVE FoldLetters(_)
FoldLetters(w) ==
    IF w = <<>> THEN <<>>
    ELSE (IF Head(w) = "_" THEN <<>>
          ELSE IF Head(w) = "A" THEN <<"a">>
          ELSE <<Head(w)>>) \o FoldLetters(Tail(w))

\* normalizeTokenText(text, DEFAULT_NORMALIZATION), src/src/utils/textUtils.ts:
\* normalizeHamza is off, removeTatweel, normalizeAlef and normalizeYa are on
normalizeTokenText(text) == FoldLetters(normalizeWord(text))

normalizeTokenStream(ts) == [k \in 1..Len(ts) |-> normalizeTokenText(ts[k].text)]

\* a phrase with a stopword in it taken for one made of stopwords
isAnyStopword(words, stopwords) ==
    IF stopwords = {} THEN FALSE
    ELSE \E k \in 1..Len(words) : words[k] \in stopwords

isAllStopwords(words, stopwords) ==
    IF stopwords = {} THEN FALSE
    ELSE \A k \in 1..Len(words) : words[k] \in stopwords

\* slice.some((s) => !s)
HasEmptyWord(words) == \E k \in 1..Len(words) : words[k] = <<>>

\* the position of key in a Map, 0 when the Map does not have it
IndexOfKey(entries, key) ==
    IF \E k \in 1..Len(entries) : entries[k].key = key
    THEN CHOOSE k \in 1..Len(entries) : entries[k].key = key
    ELSE 0

HasKey(entries, key) == IndexOfKey(entries, key) # 0

\* counts.set(key, (counts.get(key) ?? 0) + 1)
Increment(entries, key) ==
    LET k == IndexOfKey(entries, key)
    IN  IF k = 0 THEN Append(entries, [key |-> key, count |-> 1])
        ELSE [entries EXCEPT ![k].count = @ + 1]

\* the two nested loops of countNgrams from (start, n) on; start is 0-based
RECURSIVE CountFrom(_, _, _, _, _)
CountFrom(normalized, opts, start, n, entries) ==
    IF start >= Len(normalized) THEN entries
    ELSE IF n > opts.maxN \/ start + n > Len(normalized)
         THEN CountFrom(normalized, opts, start + 1, opts.minN, entries)
    ELSE LET slice == Slice(normalized, start, start + n)
         IN  IF HasEmptyWord(slice) \/ isAllStopwords(slice, opts.stopwords)
             THEN CountFrom(normalized, opts, start, n + 1, entries)
             ELSE CountFrom(normalized, opts, start, n + 1, Increment(entries, slice))

countNgrams(normalized, opts) == CountFrom(normalized, opts, 0, opts.minN, <<>>)

\* selectCandidateKeys and initCandidateStats
RECURSIVE initCandidateStats(_, _)
initCandidateStats(entries, minCount) ==
    IF entries = <<>> THEN <<>>
    ELSE (IF Head(entries).count >= minCount
          THEN <<[key |-> Head(entries).key,
                  count |-> Head(entries).count,
                  firstOccurrenceIndex |-> Infinity,
                  occurrenceIndices |-> <<>>,
                  occurrencesTruncated |-> FALSE,
                  surfaceCounts |-> <<>>]>>
          ELSE <<>>) \o initCandidateStats(Tail(entries), minCount)

recordOccurrence(stats, index, cap) ==
    IF Len(stats.occurrenceIndices) < cap
    THEN [stats EXCEPT !.occurrenceIndices = Append(@, index)]
    ELSE [stats EXCEPT !.occurrencesTruncated = TRUE]

addSurfaceVariant(stats, surface) ==
    LET k == IndexOfKey(stats.surfaceCounts, surface)
    IN  IF k # 0 THEN [stats EXCEPT !.surfaceCounts[k].count = @ + 1]
        ELSE IF Len(stats.surfaceCounts) >= SURFACE_VARIANTS_CAP THEN stats
        ELSE [stats EXCEPT !.surfaceCounts = Append(@, [key |-> surface, count |-> 1])]

\* Math.min(stats.firstOccurrenceIndex, startIndex)
MinIndex(a, b) == IF a = Infinity THEN b ELSE IF b = Infinity THEN a ELSE Min(a, b)

\* collectAt(startIndex, n) of collectCandidateStats
collectAt(ts, normalized, stats, startIndex, n, cap) ==
    LET slice == Slice(normalized, startIndex, startIndex + n)
        k == IndexOfKey(stats, slice)
    IN  IF HasEmptyWord(slice) \/ k = 0 THEN stats
        ELSE LET first == [stats[k] EXCEPT !.firstOccurrenceIndex = MinIndex(@, startIndex)]
                 recorded == recordOccurrence(first, startIndex, cap)
                 surface == JoinWithSpace([j \in 1..n |-> ts[startIndex + j].text])
             IN  [stats EXCEPT ![k] = addSurfaceVariant(recorded, surface)]

\* the two nested loops of collectCandidateStats
RECURSIVE CollectFrom(_, _, _, _, _, _)
CollectFrom(ts, normalized, opts, start, n, stats) ==
    IF start >= Len(normalized) THEN stats
    ELSE IF n > opts.maxN \/ start + n > Len(normalized)
         THEN CollectFrom(ts, normalized, opts, start + 1, opts.minN, stats)
    ELSE CollectFrom(ts, normalized, opts, start, n + 1,
                     collectAt(ts, normalized, stats, start, n, opts.occurrenceCap))

collectCandidateStats(ts, normalized, opts, entries) ==
    CollectFrom(ts, normalized, opts, 0, opts.minN, initCandidateStats(entries, opts.minCount))

\* a guard that lets every candidate through
canClosedDedupeAlways(stats) == TRUE

canClosedDedupe(stats) == ~stats.occurrencesTruncated

\* the starts of the long phrase themselves, not shifted
derivedStartSetUnshifted(longStarts, offset) == longStarts

derivedStartSetForOffset(longStarts, offset) == {start + offset : start \in longStarts}

\* a test that asks only whether the subphrase is a candidate
isSubphraseRemovableIfCandidate(stats, longStats, offset, subLen) ==
    HasKey(stats, Slice(longStats.key, offset, offset + subLen))

\* isSubphraseRemovableAtOffset returns subKey or null: TRUE when it returns
\* the key longWords.slice(offset, offset + subLen)
isSubphraseRemovableAtOffset(stats, longStats, offset, subLen) ==
    LET subKey == Slice(longStats.key, offset, offset + subLen)
        k == IndexOfKey(stats, subKey)
    IN  IF k = 0 THEN FALSE
        ELSE IF stats[k].count # longStats.count THEN FALSE
        ELSE derivedStartSetForOffset(Range(longStats.occurrenceIndices), offset)
                 = Range(stats[k].occurrenceIndices)

\* the two inner loops of applyClosedDedupSafe for one long candidate: the
\* pairs <<longKey, subKey>> for which removable.add(subKey) runs
PairsOfLong(stats, longStats) ==
    IF ~canClosedDedupe(longStats) THEN {}
    ELSE LET longLen == Len(longStats.key)
         IN  UNION {
                 {<<longStats.key, Slice(longStats.key, offset, offset + subLen)>> :
                     offset \in {o \in 0..(longLen - subLen) :
                                    isSubphraseRemovableAtOffset(stats, longStats, o, subLen)}} :
                 subLen \in 2..(longLen - 1)}

\* The order in which getSortedCandidatesForDedupe visits the candidates
\* does not show in the set that applyClosedDedupSafe returns.
RemovalPairs(stats) == UNION {PairsOfLong(stats, stats[l]) : l \in 1..Len(stats)}

applyClosedDedupSafe(stats) == {pair[2] : pair \in RemovalPairs(stats)}

\* String.prototype.localeCompare: the primary weights decide, white space
\* before punctuation before letters, and a variant of a letter only breaks
\* a tie
PrimaryRank(c) ==
    CASE c = " " -> 0
      [] c = "," -> 1
      [] c = "." -> 2
      [] c = "~" -> 3
      [] c = "_" -> 4
      [] c = "a" -> 5
      [] c = "A" -> 5
      [] c = "b" -> 6
      [] c = "c" -> 7
      [] c = "d" -> 8
      [] OTHER -> 9

VariantRank(c) == IF c = "A" THEN 1 ELSE 0

RECURSIVE CompareBy(_, _, _)
CompareBy(x, y, level) ==
    LET rank(c) == IF level = 1 THEN PrimaryRank(c) ELSE VariantRank(c)
    IN  IF x = <<>> /\ y = <<>> THEN 0
        ELSE IF x = <<>> THEN -1
        ELSE IF y = <<>> THEN 1
        ELSE IF rank(Head(x)) < rank(Head(y)) THEN -1
        ELSE IF rank(Head(x)) > rank(Head(y)) THEN 1
        ELSE CompareBy(Tail(x), Tail(y), level)

localeCompare(x, y) ==
    IF CompareBy(x, y, 1) # 0 THEN CompareBy(x, y, 1) ELSE CompareBy(x, y, 2)

\* (a, b) => b[1] - a[1] || a[0].localeCompare(b[0])
SurfaceBefore(a, b) ==
    \/ a.count > b.count
    \/ a.count = b.count /\ localeCompare(a.key, b.key) < 0

\* b.count - a.count || b.length - a.length || a.normalizedPhrase.localeCompare(b.normalizedPhrase)
HintBefore(a, b) ==
    \/ a.count > b.count
    \/ a.count = b.count /\ a.length > b.length
    \/ a.count = b.count /\ a.length = b.length
          /\ localeCompare(a.normalizedPhrase, b.normalizedPhrase) < 0

\* the comparator handed to sort: that of the surface forms or that of the hints
Before(comparator, a, b) ==
    IF comparator = "surface" THEN SurfaceBefore(a, b) ELSE HintBefore(a, b)

\* Array.prototype.sort is stable: an element goes after those it does not precede
RECURSIVE InsertSorted(_, _, _)
InsertSorted(sorted, item, comparator) ==
    IF sorted = <<>> THEN <<item>>
    ELSE IF Before(comparator, item, Head(sorted)) THEN <<item>> \o sorted
    ELSE <<Head(sorted)>> \o InsertSorted(Tail(sorted), item, comparator)

RECURSIVE SortBy(_, _)
SortBy(items, comparator) ==
    IF items = <<>> THEN <<>>
    ELSE InsertSorted(SortBy(Front(items), comparator), Last(items), comparator)

pickTopSurfaces(surfaceCounts, max) ==
    LET sorted == SortBy(surfaceCounts, "surface")
    IN  [k \in 1..Min(max, Len(sorted)) |-> sorted[k].key]

\* the for loop of buildResults
RECURSIVE UnsortedResults(_, _)
UnsortedResults(stats, removableKeys) ==
    IF stats = <<>> THEN <<>>
    ELSE LET st == Head(stats)
             normalizedPhrase == JoinWithSpace(st.key)
             surfaces == pickTopSurfaces(st.surfaceCounts, 3)
         IN  (IF st.key \in removableKeys THEN <<>>
              ELSE <<[count |-> st.count,
                      firstOccurrenceIndex |-> st.firstOccurrenceIndex,
                      length |-> Len(st.key),
                      normalizedPhrase |-> normalizedPhrase,
                      phrase |-> IF Len(surfaces) > 0 THEN surfaces[1] ELSE normalizedPhrase,
                      topSurfaceForms |-> surfaces]>>)
                 \o UnsortedResults(Tail(stats), removableKeys)

\* the results without the slice
TakeAll(results, topK) == results

\* results.slice(0, Math.max(0, topK))
TakeTopK(results, topK) ==
    IF topK = Infinity THEN results ELSE SubSeq(results, 1, Min(Max(0, topK), Len(results)))

buildResults(stats, removableKeys, topK) ==
    TakeTopK(SortBy(UnsortedResults(stats, removableKeys), "hint"), topK)

\* generateHintsFromTokens up to the call of collectCandidateStats
HintsCount ==
    /\ pc = "hints"
    /\ IF Len(hintTokens) = 0 \/ options.minN < 1 \/ options.maxN < options.minN
       THEN /\ hints' = <<>>
            /\ pc' = "mined"
            /\ UNCHANGED <<normalizedTokens, counts>>
       ELSE /\ normalizedTokens' = normalizeTokenStream(hintTokens)
            /\ counts' = countNgrams(normalizedTokens', options)
            /\ IF \A k \in 1..Len(counts') : counts'[k].count < options.minCount
               THEN /\ hints' = <<>>
                    /\ pc' = "mined"
               ELSE /\ pc' = "collect"
                    /\ UNCHANGED hints
    /\ UNCHANGED <<hintTokens, options, candidates, removable, removedBy>>
    /\ UNCHANGED segmentVars
    /\ UNCHANGED <<cleanupVars, groupVars, mergeVars, syncVars,
                   markVars, formatVars, lcsVars>>

HintsCollect ==
    /\ pc = "collect"
    /\ candidates' = collectCandidateStats(hintTokens, normalizedTokens, options, counts)
    /\ pc' = "dedupe"
    /\ UNCHANGED <<hintTokens, options, normalizedTokens, counts, removable, removedBy, hints>>
    /\ UNCHANGED segmentVars
    /\ UNCHANGED <<cleanupVars, groupVars, mergeVars, syncVars,
                   markVars, formatVars, lcsVars>>

HintsDedupe ==
    /\ pc = "dedupe"
    /\ IF options.dedupe = "closed"
       THEN /\ removable' = applyClosedDedupSafe(candidates)
            /\ removedBy' = RemovalPairs(candidates)
       ELSE /\ removable' = {}
            /\ removedBy' = {}
    /\ pc' = "build"
    /\ UNCHANGED <<hintTokens, options, normalizedTokens, counts, candidates, hints>>
    /\ UNCHANGED segmentVars
    /\ UNCHANGED <<cleanupVars, groupVars, mergeVars, syncVars,
                   markVars, formatVars, lcsVars>>

HintsBuild ==
    /\ pc = "build"
    /\ hints' = buildResults(candidates, removable, options.topK)
    /\ pc' = "mined"
    /\ UNCHANGED <<hintTokens, options, normalizedTokens, counts, candidates, removable,
                   removedBy>>
    /\ UNCHANGED segmentVars
    /\ UNCHANGED <<cleanupVars, groupVars, mergeVars, syncVars,
                   markVars, formatVars, lcsVars>>

\* segments.flatMap((segment) => segment.tokens)
RECURSIVE Flatten(_)
Flatten(tokenLists) ==
    IF tokenLists = <<>> THEN <<>> ELSE Head(tokenLists) \o Flatten(Tail(tokenLists))

\* generateHintsFromTokens as the function generateHintsFromSegments calls
generateHintsFromTokens(ts, opts) ==
    IF Len(ts) = 0 \/ opts.minN < 1 \/ opts.maxN < opts.minN THEN <<>>
    ELSE LET normalized == normalizeTokenStream(ts)
             entries == countNgrams(normalized, opts)
         IN  IF \A k \in 1..Len(entries) : entries[k].count < opts.minCount THEN <<>>
             ELSE LET stats == collectCandidateStats(ts, normalized, opts, entries)
                      removableKeys == IF opts.dedupe = "closed"
                                       THEN applyClosedDedupSafe(stats)
                                       ELSE {}
                  IN  buildResults(stats, removableKeys, opts.topK)

\* Array.from(new Set(forms)): each form once, at its first place
RECURSIVE UniqueForms(_, _)
UniqueForms(forms, seen) ==
    IF forms = <<>> THEN <<>>
    ELSE (IF Head(forms) \in seen THEN <<>> ELSE <<Head(forms)>>)
             \o UniqueForms(Tail(forms), seen \cup {Head(forms)})

\* the position in combined of the hint of the phrase, 0 when there is none
IndexOfPhrase(entries, normalizedPhrase) ==
    IF \E k \in 1..Len(entries) : entries[k].normalizedPhrase = normalizedPhrase
    THEN CHOOSE k \in 1..Len(entries) : entries[k].normalizedPhrase = normalizedPhrase
    ELSE 0

\* the merged hint keeping the count it had
mergeIntoKeepingCount(entries, hint) ==
    IF IndexOfPhrase(entries, hint.normalizedPhrase) = 0 THEN Append(entries, hint)
    ELSE entries

mergeInto(entries, hint) ==
    LET k == IndexOfPhrase(entries, hint.normalizedPhrase)
    IN  IF k = 0 THEN Append(entries, hint)
        ELSE [entries EXCEPT
                 ![k].count = @ + hint.count,
                 ![k].length = Max(@, hint.length),
                 ![k].topSurfaceForms =
                     LET unique == UniqueForms(@ \o hint.topSurfaceForms, {})
                     IN  SubSeq(unique, 1, Min(3, Len(unique))),
                 ![k].firstOccurrenceIndex = MinIndex(@, hint.firstOccurrenceIndex)]

\* for (const hint of mined) mergeInto(combined, hint)
RECURSIVE MergeAll(_, _)
MergeAll(entries, mined) ==
    IF mined = <<>> THEN entries
    ELSE MergeAll(mergeInto(entries, Head(mined)), Tail(mined))

\* boundaryStrategy 'none': the whole function
SegmentsFlat ==
    /\ pc = "segments"
    /\ options.boundaryStrategy = "none"
    /\ hints' = generateHintsFromTokens(Flatten(hintSegments), options)
    /\ pc' = "segmentsMined"
    /\ UNCHANGED <<hintTokens, options, normalizedTokens, counts, candidates, removable,
                   removedBy, segmentVars>>
    /\ UNCHANGED <<cleanupVars, groupVars, mergeVars, syncVars,
                   markVars, formatVars, lcsVars>>

\* boundaryStrategy 'segment': one iteration of the loop over the segments
SegmentsMineOne ==
    /\ pc = "segments"
    /\ options.boundaryStrategy = "segment"
    /\ segmentIndex <= Len(hintSegments)
    /\ combined' = MergeAll(combined, generateHintsFromTokens(hintSegments[segmentIndex], options))
    /\ segmentIndex' = segmentIndex + 1
    /\ UNCHANGED <<pc, hintTokens, options, normalizedTokens, counts, candidates, removable,
                   removedBy, hints, hintSegments>>
    /\ UNCHANGED <<cleanupVars, groupVars, mergeVars, syncVars,
                   markVars, formatVars, lcsVars>>

\* boundaryStrategy 'segment': the sort and the return
SegmentsReturn ==
    /\ pc = "segments"
    /\ options.boundaryStrategy = "segment"
    /\ segmentIndex > Len(hintSegments)
    /\ hints' = SortBy(combined, "hint")
    /\ pc' = "segmentsMined"
    /\ UNCHANGED <<hintTokens, options, normalizedTokens, counts, candidates, removable,
                   removedBy, segmentVars>>
    /\ UNCHANGED <<cleanupVars, groupVars, mergeVars, syncVars,
                   markVars, formatVars, lcsVars>>

\* The arguments of the miner.  The tokens follow one another without gaps.
HintTexts == {<<"a">>, <<"b">>, <<"A", ".">>, <<".">>}

HintTokensOfTexts(texts) ==
    [k \in 1..Len(texts) |-> [start |-> k - 1, end |-> k, text |-> texts[k]]]

CapValues == (1..MaxCap) \cup {OCCURRENCE_CAP_FOR_DEDUPE}

-----------------------------------------------------------------------------
(* markTokensWithDividers, src/src/transcript.ts, with isHintMatched of     *)
(* src/src/utils/transcriptUtils.ts and the hint map createHints builds    *)
(*                                                                         *)
(* The hints are a record [given, map]: given is FALSE when the option is  *)
(* left out, and map is the Record from a first word to the word lists of  *)
(* the phrases that begin with it.                                         *)

\* hint.split(' '): the pieces between single spaces, empty pieces included
RECURSIVE SplitOnSpace(_, _)
SplitOnSpace(text, piece) ==
    IF text = <<>> THEN <<piece>>
    ELSE IF Head(text) = " " THEN <<piece>> \o SplitOnSpace(Tail(text), <<>>)
    ELSE SplitOnSpace(Tail(text), Append(piece, Head(text)))

\* the for loop of createHints
RECURSIVE createHintsFrom(_, _)
createHintsFrom(phrases, hintMap) ==
    IF phrases = <<>> THEN hintMap
    ELSE LET words == SplitOnSpace(Head(phrases), <<>>)
             first == words[1]
             phrasesOfKey == IF first \in DOMAIN hintMap THEN hintMap[first] ELSE <<>>
         IN  createHintsFrom(Tail(phrases), MapSet(hintMap, first, Append(phrasesOfKey, words)))

createHints(phrases) == createHintsFrom(phrases, EmptyMap)

\* the inner loop of isHintMatched that compares only the first word
HintSequenceMatchesFirstWordOnly(toks, words, index) ==
    /\ index + Len(words) <= Len(toks)
    /\ Len(words) > 0 => toks[index + 1].text = words[1]

\* index + len <= tokens.length and tokens[index + k].text === words[k] for every k
HintSequenceMatches(toks, words, index) ==
    /\ index + Len(words) <= Len(toks)
    /\ \A k \in 0..(Len(words) - 1) : toks[index + k + 1].text = words[k + 1]

\* index is 0-based
isHintMatched(toks, hintMap, index) ==
    LET key == toks[index + 1].text
        phrasesOfKey == IF key \in DOMAIN hintMap THEN hintMap[key] ELSE <<>>
    IN  \E c \in 1..Len(phrasesOfKey) : HintSequenceMatches(toks, phrasesOfKey[c], index)

\* a test that looks at the first filler only
IsFillerFirstOnly(token, fillers) == Len(fillers) > 0 /\ fillers[1] = token.text

\* fillers.includes(token.text)
IsFiller(token, fillers) == \E f \in 1..Len(fillers) : fillers[f] = token.text

\* the gap test with a comparison that also holds at the threshold
GapBreakDueAtThreshold(prev, token, gapThreshold) ==
    prev # NULL /\ token.start - prev >= gapThreshold

\* prevEnd !== null && token.start - prevEnd > gapThreshold
GapBreakDue(prev, token, gapThreshold) ==
    prev # NULL /\ token.start - prev > gapThreshold

\* the elements one iteration of the for loop pushes for toks[index]
MarkedFor(toks, index, opts, prev) ==
    LET token == toks[index + 1]
    IN  IF IsFiller(token, opts.fillers) THEN <<SEGMENT_BREAK>>
        ELSE (IF opts.hints.given /\ isHintMatched(toks, opts.hints.map, index)
              THEN <<ALWAYS_BREAK>> ELSE <<>>)
             \o (IF GapBreakDue(prev, token, opts.gapThreshold)
                 THEN <<SEGMENT_BREAK>> ELSE <<>>)
             \o <<token>>
             \o (IF isEndingWithPunctuation(token.text) THEN <<SEGMENT_BREAK>> ELSE <<>>)

\* one iteration of the for loop
MarkStep ==
    /\ pc = "mark"
    /\ idx < Len(markInput)
    /\ LET token == markInput[idx + 1]
           pushed == MarkedFor(markInput, idx, markOptions, prevEnd)
       IN  /\ marked' = marked \o pushed
           /\ emitted' = Append(emitted, pushed)
           /\ prevEnd' = IF IsFiller(token, markOptions.fillers) THEN prevEnd ELSE token.end
    /\ idx' = idx + 1
    /\ UNCHANGED <<pc, combineInput, markInput, markOptions, hintPhrases>>
    /\ UNCHANGED <<cleanupVars, groupVars, mergeVars, syncVars, hintVars, formatVars, lcsVars>>

\* return marked
MarkReturn ==
    /\ pc = "mark"
    /\ idx >= Len(markInput)
    /\ pc' = "marked"
    /\ UNCHANGED <<markVars, cleanupVars, groupVars, mergeVars, syncVars, hintVars,
                   formatVars, lcsVars>>

\* The token texts given to the marker: a word, a second word, and that
\* word with sentence punctuation.
MarkTexts == {<<"a">>, <<"b">>, <<"b", ".">>}

GapsBefore == {0, 2}

\* tokens of one second each, each after the gap given for it
RECURSIVE TimedFrom(_, _, _)
TimedFrom(texts, gaps, clock) ==
    IF texts = <<>> THEN <<>>
    ELSE LET start == clock + Head(gaps)
         IN  <<[start |-> start, end |-> start + 1, text |-> Head(texts)]>>
                 \o TimedFrom(Tail(texts), Tail(gaps), start + 1)

TimedTokens(n) ==
    {TimedFrom(texts, gaps, 0) : texts \in [1..n -> MarkTexts], gaps \in [1..n -> GapsBefore]}

FillerLists == {<<>>, <<<<"b", ".">>, <<"b">>>>}

GapThresholds == {1, 2}

HintWordLists ==
    {<<<<"a">>, <<"b">>>>, <<<<"a">>, <<"b", ".">>>>, <<<<"b", ".">>, <<"a">>>>}

\* the hints option: left out, or createHints of some phrases
NoHints == [given |-> FALSE, map |-> EmptyMap]

HintsOf(wordLists) ==
    [given |-> TRUE,
     map |-> createHints([k \in 1..Len(wordLists) |-> JoinWithSpace(wordLists[k])])]

-----------------------------------------------------------------------------
(* markAndCombineSegments, src/src/transcript.ts: the marker, the cleaner,  *)
(* the grouper and the merger, each run on the result of the one before    *)

\* const tokens = segments.flatMap(...), the argument of markTokensWithDividers
CombineFlatten ==
    /\ pc = "combine"
    /\ markInput' = Flatten(combineInput)
    /\ pc' = "mark"
    /\ UNCHANGED <<combineInput, markOptions, hintPhrases, idx, marked, prevEnd, emitted>>
    /\ UNCHANGED <<cleanupVars, groupVars, mergeVars, syncVars, hintVars, formatVars, lcsVars>>

\* markedTokens = cleanupIsolatedTokens(markedTokens), the argument of the grouper
CombineCleanup ==
    /\ pc = "marked"
    /\ markedTokens' = cleanupIsolatedTokens(marked)
    /\ pc' = "group"
    /\ UNCHANGED <<once, twice, groupVars, mergeVars, syncVars, hintVars, markVars,
                   formatVars, lcsVars>>

\* the segments the grouper returned are the argument of the merger
CombineMerge ==
    /\ pc = "grouped"
    /\ heap' = [k \in 1..Len(segments) |-> segments[k].tokens]
    /\ heap0' = heap'
    /\ mergeInput' = [k \in 1..Len(segments) |->
                         [start |-> segments[k].start, end |-> segments[k].end, ref |-> k]]
    /\ pc' = "merge"
    /\ UNCHANGED <<minWordsPerSegment, mi, mergeResult, mergedInputs>>
    /\ UNCHANGED <<cleanupVars, groupVars, syncVars, hintVars, markVars, formatVars, lcsVars>>

\* The token texts given to markAndCombineSegments: a word, a word with
\* sentence punctuation, and a filler.
CombineTexts == {<<"a">>, <<"b", ".">>, <<"u">>}

CombineTokens(n) ==
    {TimedFrom(texts, gaps, 0) : texts \in [1..n -> CombineTexts], gaps \in [1..n -> GapsBefore]}

\* the token lists of the segments: consecutive chunks of c tokens
RECURSIVE ChunksOf(_, _)
ChunksOf(ts, c) ==
    IF ts = <<>> THEN <<>>
    ELSE <<SubSeq(ts, 1, Min(c, Len(ts)))>> \o ChunksOf(SubSeq(ts, Min(c, Len(ts)) + 1, Len(ts)), c)

-----------------------------------------------------------------------------
(* formatSegmentsToTimestampedTranscript and mapSegmentsIntoFormattedSegments, *)
(* src/src/transcript.ts                                                   *)
(*                                                                         *)
(* The state of the loop over one segment is [out, buffer, bufferStart]:   *)
(* out holds, for each line pushed, the buffer it was made of and the      *)
(* position in segment.tokens at which it was pushed.                      *)

Digits == <<"0", "1", "2", "3", "4", "5", "6", "7", "8", "9">>

\* Number.prototype.toString of a natural number
RECURSIVE NumberToString(_)
NumberToString(n) ==
    IF n < 10 THEN <<Digits[n + 1]>>
    ELSE NumberToString(n \div 10) \o <<Digits[(n % 10) + 1]>>

\* .padStart(2, '0')
PadStart2(str) == IF Len(str) < 2 THEN <<"0">> \o str ELSE str

formatSecondsToTimestamp(seconds) ==
    LET hrs == seconds \div 3600
        mins == (seconds % 3600) \div 60
        secs == seconds % 60
    IN  IF hrs > 0
        THEN NumberToString(hrs) \o <<":">> \o PadStart2(NumberToString(mins)) \o <<":">>
                 \o PadStart2(NumberToString(secs))
        ELSE NumberToString(mins) \o <<":">> \o PadStart2(NumberToString(secs))

\* buffer.map((t) => t.text).join(' ')
BufferText(buffer) == JoinWithSpace([k \in 1..Len(buffer) |-> buffer[k].text])

\* `${formatSecondsToTimestamp(buffer[0].start)}: ${text}`
TimestampedLine(buffer) ==
    formatSecondsToTimestamp(buffer[1].start) \o <<":", " ">> \o BufferText(buffer)

\* .join('\n')
RECURSIVE JoinWithNewline(_)
JoinWithNewline(parts) ==
    IF parts = <<>> THEN <<>>
    ELSE IF Len(parts) = 1 THEN parts[1]
    ELSE parts[1] \o <<"\n">> \o JoinWithNewline(Tail(parts))

EmptyBuffer == [out |-> <<>>, buffer |-> <<>>, bufferStart |-> NULL]

\* a pushBufferAsLine that leaves the buffer as it is
pushBufferAsLineKeepingBuffer(st, at) ==
    IF Len(st.buffer) > 0
    THEN [st EXCEPT !.out = Append(@, [buffer |-> st.buffer, at |-> at])]
    ELSE st

\* pushBufferAsLine of both formatters: the line is pushed and the buffer emptied
pushBufferAsLine(st, at) ==
    IF Len(st.buffer) > 0
    THEN [out |-> Append(st.out, [buffer |-> st.buffer, at |-> at]),
          buffer |-> <<>>, bufferStart |-> NULL]
    ELSE st

\* bufferStart !== null && bufferEnd !== null ? bufferEnd - bufferStart : 0
BufferDuration(st) ==
    LET bufferEnd == IF Len(st.buffer) > 0 THEN Last(st.buffer).end ELSE NULL
    IN  IF st.bufferStart # NULL /\ bufferEnd # NULL THEN bufferEnd - st.bufferStart ELSE 0

\* the last branch: the token goes to the buffer
BufferToken(st, token) ==
    [out |-> st.out,
     buffer |-> Append(st.buffer, token),
     bufferStart |-> IF st.bufferStart = NULL THEN token.start ELSE st.bufferStart]

\* the test at a SEGMENT_BREAK without the look at the punctuation
BreaksLineOnDurationOnly(st, max) ==
    max # NULL /\ BufferDuration(st) >= max /\ Len(st.buffer) > 0

\* duration >= maxSecondsPerLine && buffer.length > 0 &&
\* isEndingWithPunctuation(buffer[buffer.length - 1].text); a comparison
\* with undefined is false
BreaksLineAtSegmentBreak(st, max) ==
    /\ max # NULL
    /\ BufferDuration(st) >= max
    /\ Len(st.buffer) > 0
    /\ isEndingWithPunctuation(Last(st.buffer).text)

\* one iteration of the inner for loop of formatSegmentsToTimestampedTranscript
TranscriptVisit(st, token, at, max) ==
    IF token = ALWAYS_BREAK THEN pushBufferAsLine(st, at)
    ELSE IF token = SEGMENT_BREAK
         THEN (IF BreaksLineAtSegmentBreak(st, max) THEN pushBufferAsLine(st, at) ELSE st)
    ELSE BufferToken(st, token)

\* the inner for loop and the pushBufferAsLine() after it
RECURSIVE TranscriptFrom(_, _, _, _)
TranscriptFrom(ts, at, st, max) ==
    IF at > Len(ts) THEN pushBufferAsLine(st, at).out
    ELSE TranscriptFrom(ts, at + 1, TranscriptVisit(st, ts[at], at, max), max)

\* !maxSecondsPerLine: the argument is left out, or is 0
NoMaxSeconds(max) == max = NULL \/ max = 0

\* one iteration of the for loop of mapSegmentsIntoFormattedSegments
MapVisit(st, token, at, max) ==
    IF token = ALWAYS_BREAK THEN pushBufferAsLine(st, at)
    ELSE IF token = SEGMENT_BREAK
         THEN (IF NoMaxSeconds(max) THEN pushBufferAsLine(st, at)
               ELSE IF BufferDuration(st) > max THEN pushBufferAsLine(st, at)
               ELSE st)
    ELSE BufferToken(st, token)

RECURSIVE MapFrom(_, _, _, _)
MapFrom(ts, at, st, max) ==
    IF at > Len(ts) THEN pushBufferAsLine(st, at).out
    ELSE MapFrom(ts, at + 1, MapVisit(st, ts[at], at, max), max)

\* the history entries of the lines pushed for segment s
BuffersOf(pushed, s) ==
    [k \in 1..Len(pushed) |-> [segment |-> s, buffer |-> pushed[k].buffer, at |-> pushed[k].at]]

\* one iteration of the outer for loop of formatSegmentsToTimestampedTranscript
TranscriptSegment ==
    /\ pc = "transcript"
    /\ fi <= Len(formatInput)
    /\ LET pushed == TranscriptFrom(formatInput[fi].tokens, 1, EmptyBuffer, maxSecondsPerLine)
       IN  /\ lines' = lines \o [k \in 1..Len(pushed) |-> TimestampedLine(pushed[k].buffer)]
           /\ lineBuffers' = lineBuffers \o BuffersOf(pushed, fi)
    /\ fi' = fi + 1
    /\ UNCHANGED <<pc, formatInput, maxSecondsPerLine, formatted, partBuffers, transcript>>
    /\ UNCHANGED <<cleanupVars, groupVars, mergeVars, syncVars, hintVars, markVars, lcsVars>>

\* return lines.join('\n'); the same segments then go to mapSegmentsIntoFormattedSegments
TranscriptReturn ==
    /\ pc = "transcript"
    /\ fi > Len(formatInput)
    /\ transcript' = JoinWithNewline(lines)
    /\ pc' = "map"
    /\ fi' = 1
    /\ UNCHANGED <<formatInput, maxSecondsPerLine, lines, lineBuffers, formatted, partBuffers>>
    /\ UNCHANGED <<cleanupVars, groupVars, mergeVars, syncVars, hintVars, markVars, lcsVars>>

\* the callback of segments.map, for one segment
MapSegment ==
    /\ pc = "map"
    /\ fi <= Len(formatInput)
    /\ LET segment == formatInput[fi]
           pushed == MapFrom(segment.tokens, 1, EmptyBuffer, maxSecondsPerLine)
           textParts == [k \in 1..Len(pushed) |-> BufferText(pushed[k].buffer)]
       IN  /\ formatted' = Append(formatted,
                                  [end |-> segment.end, start |-> segment.start,
                                   text |-> JoinWithNewline(textParts),
                                   tokens |-> WordTokensOf(segment.tokens)])
           /\ partBuffers' = partBuffers \o BuffersOf(pushed, fi)
    /\ fi' = fi + 1
    /\ UNCHANGED <<pc, formatInput, maxSecondsPerLine, lines, lineBuffers, transcript>>
    /\ UNCHANGED <<cleanupVars, groupVars, mergeVars, syncVars, hintVars, markVars, lcsVars>>

\* segments.map returns
MapReturn ==
    /\ pc = "map"
    /\ fi > Len(formatInput)
    /\ pc' = "formatted"
    /\ UNCHANGED <<formatVars, cleanupVars, groupVars, mergeVars, syncVars, hintVars,
                   markVars, lcsVars>>

\* The elements of the segments given to the formatters, from a shape: "w" a
\* word, "p" a word that ends in sentence punctuation, "S" a SEGMENT_BREAK,
\* "A" an ALWAYS_BREAK.  The word at position k starts at 2k and ends at 2k+1.
FormatElements(shape) ==
    [k \in 1..Len(shape) |->
        CASE shape[k] = "S" -> SEGMENT_BREAK
          [] shape[k] = "A" -> ALWAYS_BREAK
          [] shape[k] = "p" -> [start |-> 2 * k, end |-> 2 * k + 1, text |-> <<"b", ".">>]
          [] OTHER -> [start |-> 2 * k, end |-> 2 * k + 1, text |-> <<"a">>]]

\* the elements cut into segments after each position of cuts
SegmentsOfCuts(elements, cuts) ==
    LET segmentOf(k) == 1 + Cardinality({c \in cuts : c < k})
        tokensOf(s) ==
            LET members == {k \in 1..Len(elements) : segmentOf(k) = s}
                first == CHOOSE k \in members : \A o \in members : k <= o
                last == CHOOSE k \in members : \A o \in members : k >= o
            IN  SubSeq(elements, first, last)
        segmentFor(s) ==
            LET words == WordTokensOf(tokensOf(s))
            IN  [start |-> IF words = <<>> THEN 0 ELSE words[1].start,
                 end |-> IF words = <<>> THEN 0 ELSE Last(words).end,
                 tokens |-> tokensOf(s)]
    IN  IF elements = <<>> THEN <<>>
        ELSE [s \in 1..(Cardinality(cuts) + 1) |-> segmentFor(s)]

FormatInputs(n) ==
    {SegmentsOfCuts(FormatElements(shape), cuts) :
        shape \in [1..n -> {"w", "p", "S", "A"}], cuts \in SUBSET (1..(n - 1))}

\* maxSecondsPerLine: left out, or a number of seconds
MaxSecondsPerLineValues == {NULL, 0, 1, 3}

-----------------------------------------------------------------------------
(* buildLcsTable and extractLcsMatches run on two word lists of their own  *)

\* const table = buildLcsTable(a, b)
LcsBuild ==
    /\ pc = "lcs"
    /\ abTable' = buildLcsTable(lcsA, lcsB)
    /\ pc' = "lcsTable"
    /\ UNCHANGED <<lcsA, lcsB, abMatches>>
    /\ UNCHANGED <<cleanupVars, groupVars, mergeVars, syncVars, hintVars, markVars, formatVars>>

\* extractLcsMatches(table, a, b)
LcsExtract ==
    /\ pc = "lcsTable"
    /\ abMatches' = extractLcsMatches(abTable, lcsA, lcsB)
    /\ pc' = "lcsMatches"
    /\ UNCHANGED <<lcsA, lcsB, abTable>>
    /\ UNCHANGED <<cleanupVars, groupVars, mergeVars, syncVars, hintVars, markVars, formatVars>>

LcsWords == {<<"a">>, <<"b">>, <<"c">>}

-----------------------------------------------------------------------------
(* Specifications *)

CleanupIdle == markedTokens = <<>> /\ once = <<>> /\ twice = <<>>

GroupIdle ==
    /\ maxSecondsPerSegment = 0
    /\ i = 1
    /\ currentSegment = <<>>
    /\ segmentStart = NULL
    /\ segmentEnd = NULL
    /\ segments = <<>>
    /\ closedBefore = <<>>

MergeIdle ==
    /\ mergeInput = <<>>
    /\ heap = <<>>
    /\ heap0 = <<>>
    /\ minWordsPerSegment = 0
    /\ mi = 1
    /\ mergeResult = <<>>
    /\ mergedInputs = {}

SyncIdle ==
    /\ tokens = <<>>
    /\ groundTruth = <<>>
    /\ groundTruthWords = <<>>
    /\ anchors = <<>>
    /\ anchorIndex = 1
    /\ syncResult = <<>>
    /\ lastTokenIndex = -1
    /\ lastGtIndex = -1
    /\ applied = <<>>

SegmentsIdle ==
    /\ hintSegments = <<>>
    /\ combined = <<>>
    /\ segmentIndex = 1

HintIdle ==
    /\ hintTokens = <<>>
    /\ options = [minN |-> 2, maxN |-> 6, minCount |-> 2, topK |-> Infinity,
                  dedupe |-> "closed", stopwords |-> {}, occurrenceCap |-> OCCURRENCE_CAP_FOR_DEDUPE]
    /\ normalizedTokens = <<>>
    /\ counts = <<>>
    /\ candidates = <<>>
    /\ removable = {}
    /\ removedBy = {}
    /\ hints = <<>>
    /\ SegmentsIdle

MarkIdle ==
    /\ combineInput = <<>>
    /\ markInput = <<>>
    /\ markOptions = [fillers |-> <<>>, gapThreshold |-> 0, hints |-> NoHints]
    /\ hintPhrases = <<>>
    /\ idx = 0
    /\ marked = <<>>
    /\ prevEnd = NULL
    /\ emitted = <<>>

FormatIdle ==
    /\ formatInput = <<>>
    /\ maxSecondsPerLine = NULL
    /\ fi = 1
    /\ lines = <<>>
    /\ lineBuffers = <<>>
    /\ formatted = <<>>
    /\ partBuffers = <<>>
    /\ transcript = <<>>

LcsIdle ==
    /\ lcsA = <<>>
    /\ lcsB = <<>>
    /\ abTable = <<>>
    /\ abMatches = EmptyMap

\* cleanupIsolatedTokens(markedTokens)
CleanupOnce ==
    /\ pc = "cleanup"
    /\ once' = cleanupIsolatedTokens(markedTokens)
    /\ pc' = "cleanupAgain"
    /\ UNCHANGED <<markedTokens, twice, groupVars, mergeVars, syncVars, hintVars,
                   markVars, formatVars, lcsVars>>

\* cleanupIsolatedTokens(cleanupIsolatedTokens(markedTokens))
CleanupAgain ==
    /\ pc = "cleanupAgain"
    /\ twice' = cleanupIsolatedTokens(once)
    /\ pc' = "cleaned"
    /\ UNCHANGED <<markedTokens, once, groupVars, mergeVars, syncVars, hintVars,
                   markVars, formatVars, lcsVars>>

InitCleanup ==
    /\ pc = "cleanup"
    /\ markedTokens \in MarkedInputs
    /\ once = <<>>
    /\ twice = <<>>
    /\ GroupIdle /\ MergeIdle /\ SyncIdle /\ HintIdle
    /\ MarkIdle /\ FormatIdle /\ LcsIdle

NextCleanup == CleanupOnce \/ CleanupAgain

SpecCleanup == InitCleanup /\ [][NextCleanup]_vars

InitGroup ==
    /\ pc = "group"
    /\ markedTokens \in MarkedInputs
    /\ once = <<>>
    /\ twice = <<>>
    /\ maxSecondsPerSegment \in MaxSecondsValues
    /\ i = 1
    /\ currentSegment = <<>>
    /\ segmentStart = NULL
    /\ segmentEnd = NULL
    /\ segments = <<>>
    /\ closedBefore = <<>>
    /\ MergeIdle /\ SyncIdle /\ HintIdle
    /\ MarkIdle /\ FormatIdle /\ LcsIdle

NextGroup == GroupStep \/ GroupFlush

SpecGroup == InitGroup /\ [][NextGroup]_vars

InitMerge ==
    /\ pc = "merge"
    /\ \E shapes \in NonEmptySeqsUpTo(SegmentShapes, MaxSegments) :
          /\ heap = SegmentArrays(shapes)
          /\ heap0 = heap
          /\ mergeInput = SegmentObjects(heap)
    /\ minWordsPerSegment \in 0..MaxMinWords
    /\ mi = 1
    /\ mergeResult = <<>>
    /\ mergedInputs = {}
    /\ CleanupIdle /\ GroupIdle /\ SyncIdle /\ HintIdle
    /\ MarkIdle /\ FormatIdle /\ LcsIdle

NextMerge == MergeStep \/ MergeReturn

SpecMerge == InitMerge /\ [][NextMerge]_vars

InitSync ==
    /\ pc = "sync"
    /\ \E texts \in SeqsUpTo(TokenTexts, MaxTokens), gap \in {0, 1} :
          tokens = TokensOfTexts(texts, gap)
    /\ \E pieces \in SeqsUpTo(GroundTruthPieces, MaxGtPieces) :
          groundTruth = JoinWithSpace(pieces)
    /\ groundTruthWords = <<>>
    /\ anchors = <<>>
    /\ anchorIndex = 1
    /\ syncResult = <<>>
    /\ lastTokenIndex = -1
    /\ lastGtIndex = -1
    /\ applied = <<>>
    /\ CleanupIdle /\ GroupIdle /\ MergeIdle /\ HintIdle
    /\ MarkIdle /\ FormatIdle /\ LcsIdle

NextSync ==
    SyncTokenize \/ SyncFindAnchors \/ SyncProcessGap \/ SyncFinalTail \/ ApplyGroundTruth

SpecSync == InitSync /\ [][NextSync]_vars

InitHints ==
    /\ pc = "hints"
    /\ \E texts \in SeqsUpTo(HintTexts, MaxStream) : hintTokens = HintTokensOfTexts(texts)
    /\ options \in [minN : {1, 2}, maxN : {3, 4}, minCount : {1, 2}, topK : {Infinity},
                    dedupe : {"closed"}, stopwords : {{}}, occurrenceCap : CapValues]
    /\ normalizedTokens = <<>>
    /\ counts = <<>>
    /\ candidates = <<>>
    /\ removable = {}
    /\ removedBy = {}
    /\ hints = <<>>
    /\ SegmentsIdle
    /\ CleanupIdle /\ GroupIdle /\ MergeIdle /\ SyncIdle
    /\ MarkIdle /\ FormatIdle /\ LcsIdle

NextHints == HintsCount \/ HintsCollect \/ HintsDedupe \/ HintsBuild

SpecHints == InitHints /\ [][NextHints]_vars

InitMark ==
    /\ pc = "mark"
    /\ combineInput = <<>>
    /\ \E n \in 0..MaxMarkTokens : markInput \in TimedTokens(n)
    /\ \/ hintPhrases = <<>> /\ markOptions \in [fillers : FillerLists,
                                                 gapThreshold : GapThresholds,
                                                 hints : {NoHints}]
       \/ /\ hintPhrases \in SeqsUpTo(HintWordLists, MaxHintPhrases)
          /\ markOptions \in [fillers : FillerLists, gapThreshold : GapThresholds,
                              hints : {HintsOf(hintPhrases)}]
    /\ idx = 0
    /\ marked = <<>>
    /\ prevEnd = NULL
    /\ emitted = <<>>
    /\ CleanupIdle /\ GroupIdle /\ MergeIdle /\ SyncIdle /\ HintIdle
    /\ FormatIdle /\ LcsIdle

NextMark == MarkStep \/ MarkReturn

SpecMark == InitMark /\ [][NextMark]_vars

InitCombine ==
    /\ pc = "combine"
    /\ \E n \in 0..MaxCombineTokens, c \in 1..MaxSegmentLen :
          \E ts \in CombineTokens(n) : combineInput = ChunksOf(ts, c)
    /\ markInput = <<>>
    /\ \/ hintPhrases = <<>> /\ markOptions = [fillers |-> <<<<"u">>>>, gapThreshold |-> 1,
                                                hints |-> NoHints]
       \/ /\ hintPhrases = <<<<<<"a">>, <<"b", ".">>>>>>
          /\ markOptions = [fillers |-> <<<<"u">>>>, gapThreshold |-> 1,
                            hints |-> HintsOf(hintPhrases)]
    /\ idx = 0
    /\ marked = <<>>
    /\ prevEnd = NULL
    /\ emitted = <<>>
    /\ CleanupIdle
    /\ maxSecondsPerSegment \in {-1, 0, 2}
    /\ i = 1
    /\ currentSegment = <<>>
    /\ segmentStart = NULL
    /\ segmentEnd = NULL
    /\ segments = <<>>
    /\ closedBefore = <<>>
    /\ mergeInput = <<>>
    /\ heap = <<>>
    /\ heap0 = <<>>
    /\ minWordsPerSegment \in {1, MaxMinWords}
    /\ mi = 1
    /\ mergeResult = <<>>
    /\ mergedInputs = {}
    /\ SyncIdle /\ HintIdle /\ FormatIdle /\ LcsIdle

NextCombine ==
    \/ CombineFlatten
    \/ MarkStep
    \/ MarkReturn
    \/ CombineCleanup
    \/ GroupStep
    \/ GroupFlush
    \/ CombineMerge
    \/ MergeStep
    \/ MergeReturn

SpecCombine == InitCombine /\ [][NextCombine]_vars

InitFormat ==
    /\ pc = "transcript"
    /\ \E n \in 0..MaxFormatElements : formatInput \in FormatInputs(n)
    /\ maxSecondsPerLine \in MaxSecondsPerLineValues
    /\ fi = 1
    /\ lines = <<>>
    /\ lineBuffers = <<>>
    /\ formatted = <<>>
    /\ partBuffers = <<>>
    /\ transcript = <<>>
    /\ CleanupIdle /\ GroupIdle /\ MergeIdle /\ SyncIdle /\ HintIdle
    /\ MarkIdle /\ LcsIdle

NextFormat == TranscriptSegment \/ TranscriptReturn \/ MapSegment \/ MapReturn

SpecFormat == InitFormat /\ [][NextFormat]_vars

InitLcs ==
    /\ pc = "lcs"
    /\ lcsA \in SeqsUpTo(LcsWords, MaxLcsLen)
    /\ lcsB \in SeqsUpTo(LcsWords, MaxLcsLen)
    /\ abTable = <<>>
    /\ abMatches = EmptyMap
    /\ CleanupIdle /\ GroupIdle /\ MergeIdle /\ SyncIdle /\ HintIdle
    /\ MarkIdle /\ FormatIdle

NextLcs == LcsBuild \/ LcsExtract

SpecLcs == InitLcs /\ [][NextLcs]_vars

-----------------------------------------------------------------------------
(* Properties of the segmentation pipeline *)

\* C1: mergeShortSegmentsWithPrevious never merges a segment whose token
\* list begins with ALWAYS_BREAK into the previous output segment, whatever
\* minWordsPerSegment is and however few word tokens the segment has.
HardBreakNeverMerged ==
    \A k \in mergedInputs : Head(heap0[mergeInput[k].ref]) # ALWAYS_BREAK

\* C8: groupMarkedTokensIntoSegments closes a segment before the end of the
\* input only when the next input element is a SEGMENT_BREAK or an
\* ALWAYS_BREAK; so every emitted segment but the first begins with a break
\* marker and no boundary falls between two adjacent word tokens.
ClosesOnlyBeforeMarker ==
    /\ \A k \in 1..Len(segments) :
          closedBefore[k] <= Len(markedTokens) => IsDivider(markedTokens[closedBefore[k]])
    /\ \A k \in 2..Len(segments) : IsDivider(Head(segments[k].tokens))
    /\ \A k \in 1..(Len(segments) - 1) :
          ~(IsWordToken(Last(segments[k].tokens)) /\ IsWordToken(Head(segments[k + 1].tokens)))

\* a segment was closed before the end of the input, and another followed it
ClosedBeforeEndWitness ==
    /\ pc = "grouped"
    /\ Len(segments) >= 2
    /\ closedBefore[1] <= Len(markedTokens)
    /\ maxSecondsPerSegment >= 0

CleanupIdempotent == pc = "cleaned" => twice = once

\* the first pass removed a break, and the second pass has run
CleanupRemovedBreakWitness ==
    /\ pc = "cleaned"
    /\ Len(once) < Len(markedTokens)
    /\ \E k \in 1..Len(once) : once[k] = SEGMENT_BREAK

-----------------------------------------------------------------------------
(* Properties of the aligner *)

TextsOf(ts) == [k \in 1..Len(ts) |-> ts[k].text]

\* C2: with more than one token and more than one ground-truth word, the
\* last token returned by syncTokensWithGroundTruth has the last
\* ground-truth word as its text.
LastTokenIsLastWord ==
    (pc = "synced" /\ Len(tokens) > 1 /\ Len(groundTruthWords) > 1) =>
        /\ Len(syncResult) > 0
        /\ Last(syncResult).text = Last(groundTruthWords)

\* C3: with at least one token and one ground-truth word, the first token
\* returned by syncTokensWithGroundTruth has the first ground-truth word as
\* its text and the start and end of input token 0.
FirstTokenIsFirstWord ==
    (pc = "synced" /\ Len(tokens) > 0 /\ Len(groundTruthWords) > 0) =>
        /\ Len(syncResult) > 0
        /\ syncResult[1].text = groundTruthWords[1]
        /\ syncResult[1].start = tokens[1].start
        /\ syncResult[1].end = tokens[1].end

\* the first token and the first word do not match, and the aligner returned
FirstWordForcedWitness ==
    /\ pc = "synced"
    /\ Len(tokens) > 1
    /\ Len(groundTruthWords) > 1
    /\ normalizeWord(tokens[1].text) # normalizeWord(groundTruthWords[1])
    /\ syncResult[1].text = groundTruthWords[1]

\* the sorted entries filtered so that each kept entry has a larger
\* ground-truth index than the entry kept before it
RECURSIVE KeptAgainstKept(_, _)
KeptAgainstKept(sorted, kept) ==
    IF sorted = <<>> THEN kept
    ELSE IF kept = <<>> \/ Head(sorted)[2] > Last(kept)[2]
         THEN KeptAgainstKept(Tail(sorted), Append(kept, Head(sorted)))
    ELSE KeptAgainstKept(Tail(sorted), kept)

\* C4: the anchor list returned by findAnchors is strictly increasing in
\* token index and in ground-truth index, from each anchor to the next, and
\* it is the list that comparing each entry with the previously kept one
\* gives.
AnchorsStrictlyIncreasing ==
    /\ \A k \in 2..Len(anchors) :
          /\ anchors[k][1] > anchors[k - 1][1]
          /\ anchors[k][2] > anchors[k - 1][2]
    /\ pc = "processGaps" =>
          anchors = KeptAgainstKept(SortedEntries(anchorCandidates(tokens, groundTruthWords)),
                                    <<>>)

\* findAnchors returned at least two anchors and its filter dropped an entry
AnchorFilteredWitness ==
    /\ pc = "processGaps"
    /\ Len(anchors) >= 2
    /\ Len(anchors) < Cardinality(DOMAIN anchorCandidates(tokens, groundTruthWords))

\* C5: for a non-empty token list and a ground truth with at least one
\* word, the texts of the tokens of applyGroundTruthToSegment are exactly
\* the ground-truth words, in order, each once.
AppliedTextsAreGroundTruthWords ==
    (pc = "applied" /\ Len(tokens) > 0 /\ Len(groundTruthWords) > 0) =>
        TextsOf(applied) = groundTruthWords

-----------------------------------------------------------------------------
(* Properties of the hint miner *)

\* the start positions (0-based) at which the n-gram key occurs in the
\* normalized stream
StartPositions(key) ==
    {p \in 0..(Len(normalizedTokens) - Len(key)) :
        Slice(normalizedTokens, p, p + Len(key)) = key}

CandidateKeys == {candidates[k].key : k \in 1..Len(candidates)}

StatsOf(key) == candidates[IndexOfKey(candidates, key)]

\* longKey holds subKey at offset and occurs exactly where subKey does
ContainsAtSameStarts(longKey, subKey, offset) ==
    /\ Len(longKey) > Len(subKey)
    /\ offset + Len(subKey) <= Len(longKey)
    /\ Slice(longKey, offset, offset + Len(subKey)) = subKey
    /\ StatsOf(longKey).count = StatsOf(subKey).count
    /\ {p + offset : p \in StartPositions(longKey)} = StartPositions(subKey)

\* C6: under closed dedupe every removed candidate is contained, at some
\* offset, in a longer candidate that is retained, has the same count and
\* whose start positions shifted by the offset are exactly the start
\* positions of the removed one; a phrase that also occurs outside the
\* longer one is not removed.
RemovedOnlyWhenContained ==
    pc \in {"build", "mined"} =>
        \A subKey \in removable :
            /\ subKey \in CandidateKeys
            /\ \E longKey \in CandidateKeys \ removable :
                  \E offset \in 0..Len(longKey) : ContainsAtSameStarts(longKey, subKey, offset)

\* one candidate was removed, and another one, which lies inside a longer
\* candidate but also occurs outside it, was kept
RemovedAndKeptWitness ==
    /\ pc = "mined"
    /\ removable # {}
    /\ \E longKey \in CandidateKeys, subKey \in CandidateKeys \ removable :
          /\ Len(subKey) >= 2
          /\ \E offset \in 0..Len(longKey) :
                /\ Len(longKey) > Len(subKey)
                /\ offset + Len(subKey) <= Len(longKey)
                /\ Slice(longKey, offset, offset + Len(subKey)) = subKey
          /\ Cardinality(StartPositions(subKey)) > Cardinality(StartPositions(longKey))

\* C7: a candidate whose occurrence list was truncated at the cap never
\* removes a shorter candidate and is never removed itself.
TruncatedNeverDedupes ==
    \A k \in 1..Len(candidates) :
        candidates[k].occurrencesTruncated =>
            /\ candidates[k].key \notin removable
            /\ \A pair \in removedBy : pair[1] # candidates[k].key

\* a truncated candidate holds a shorter candidate of the same count, which
\* closed dedupe left in place
TruncatedLongWitness ==
    /\ pc = "mined"
    /\ \E k \in 1..Len(candidates), subKey \in CandidateKeys :
          /\ candidates[k].occurrencesTruncated
          /\ Len(subKey) >= 2
          /\ \E offset \in 0..Len(candidates[k].key) :
                ContainsAtSameStarts(candidates[k].key, subKey, offset)
          /\ subKey \notin removable
          /\ \E h \in 1..Len(hints) : hints[h].normalizedPhrase = JoinWithSpace(subKey)

-----------------------------------------------------------------------------
(* Further properties of the segmentation pipeline *)

\* the elements of a sequence that are not SEGMENT_BREAK, in order
RECURSIVE WithoutSegmentBreaks(_)
WithoutSegmentBreaks(ts) ==
    IF ts = <<>> THEN <<>>
    ELSE (IF Head(ts) = SEGMENT_BREAK THEN <<>> ELSE <<Head(ts)>>)
             \o WithoutSegmentBreaks(Tail(ts))

\* sub can be had from whole by deleting elements
RECURSIVE IsSubsequence(_, _)
IsSubsequence(sub, whole) ==
    IF sub = <<>> THEN TRUE
    ELSE IF whole = <<>> THEN FALSE
    ELSE IF Head(sub) = Head(whole) THEN IsSubsequence(Tail(sub), Tail(whole))
    ELSE IsSubsequence(sub, Tail(whole))

\* C11: cleanupIsolatedTokens removes only SEGMENT_BREAK elements: its output
\* is a subsequence of its input, and the word tokens and ALWAYS_BREAK
\* markers of the input are all in the output, unchanged and in their order.
CleanupRemovesOnlySegmentBreaks ==
    pc # "cleanup" =>
        /\ IsSubsequence(once, markedTokens)
        /\ WithoutSegmentBreaks(once) = WithoutSegmentBreaks(markedTokens)

\* a SEGMENT_BREAK was removed from an input that holds a word token and an
\* ALWAYS_BREAK
CleanupKeptHardBreakWitness ==
    /\ pc = "cleanupAgain"
    /\ Len(once) < Len(markedTokens)
    /\ ALWAYS_BREAK \in Range(markedTokens)
    /\ \E k \in 1..Len(markedTokens) : IsWordToken(markedTokens[k])

\* the input token at 1-based position k has a text that is in fillers
FillerAt(k) == markInput[k].text \in Range(markOptions.fillers)

\* C12: in markTokensWithDividers every token whose text is in fillers
\* contributes exactly one SEGMENT_BREAK and nothing else, so no filler token
\* is in the output, and the output has at least as many elements as the
\* input has tokens.
FillersBecomeOneSegmentBreak ==
    /\ \A k \in 1..Len(emitted) : FillerAt(k) => emitted[k] = <<SEGMENT_BREAK>>
    /\ \A m \in 1..Len(marked) :
          IsWordToken(marked[m]) => marked[m].text \notin Range(markOptions.fillers)
    /\ pc = "marked" => Len(marked) >= Len(markInput)

\* a filler that ends in sentence punctuation, comes after a long gap and
\* begins a hint phrase was replaced by its one break
FillerReplacedWitness ==
    /\ pc = "marked"
    /\ \E k \in 2..Len(markInput) :
          /\ FillerAt(k)
          /\ isEndingWithPunctuation(markInput[k].text)
          /\ ~FillerAt(k - 1)
          /\ markInput[k].start - markInput[k - 1].end > markOptions.gapThreshold
          /\ \E h \in 1..Len(hintPhrases) : hintPhrases[h][1] = markInput[k].text

\* the positions before k of the input tokens that are not fillers
EarlierNonFillers(k) == {j \in 1..(k - 1) : ~FillerAt(j)}

\* the start of token k is more than gapThreshold after the end of the most
\* recent non-filler token before it
LongGapBefore(k) ==
    /\ EarlierNonFillers(k) # {}
    /\ LET j == CHOOSE e \in EarlierNonFillers(k) : \A o \in EarlierNonFillers(k) : o <= e
       IN  markInput[k].start - markInput[j].end > markOptions.gapThreshold

\* among the elements pushed for token k, a SEGMENT_BREAK stands before the token
GapBreakEmittedFor(k) ==
    \E p \in 1..Len(emitted[k]) :
        /\ emitted[k][p] = markInput[k]
        /\ \E q \in 1..(p - 1) : emitted[k][q] = SEGMENT_BREAK

\* C13: in markTokensWithDividers a gap SEGMENT_BREAK is emitted before a
\* non-filler token exactly when an earlier non-filler token exists and the
\* token starts more than gapThreshold after the end of the most recent of
\* them; fillers in between neither set nor advance that end.
GapBreakExactlyAfterLongGap ==
    \A k \in 1..Len(emitted) : ~FillerAt(k) => (GapBreakEmittedFor(k) <=> LongGapBefore(k))

\* a gap break was emitted for a token that follows a filler, measured from
\* the non-filler token before that filler
GapAcrossFillerWitness ==
    /\ pc = "marked"
    /\ \E k \in 3..Len(markInput) :
          ~FillerAt(k) /\ FillerAt(k - 1) /\ ~FillerAt(k - 2) /\ GapBreakEmittedFor(k)

\* some phrase the hints were created from is, word for word, the texts of
\* the tokens from position k on, and does not run past the last token
HintPhraseAt(k) ==
    /\ markOptions.hints.given
    /\ \E h \in 1..Len(hintPhrases) :
          /\ k - 1 + Len(hintPhrases[h]) <= Len(markInput)
          /\ \A w \in 1..Len(hintPhrases[h]) : markInput[k - 1 + w].text = hintPhrases[h][w]

RECURSIVE NonFillersOf(_)
NonFillersOf(ts) ==
    IF ts = <<>> THEN <<>>
    ELSE (IF Head(ts).text \in Range(markOptions.fillers) THEN <<>> ELSE <<Head(ts)>>)
             \o NonFillersOf(Tail(ts))

\* the word tokens of the segments of a result, one segment after the other
RECURSIVE WordsOfSegments(_)
WordsOfSegments(result) ==
    IF result = <<>> THEN <<>>
    ELSE WordTokensOf(TokensOf(Head(result))) \o WordsOfSegments(Tail(result))

\* C15: the word tokens of the segments markAndCombineSegments returns, one
\* segment after the other, are exactly the tokens of the input segments,
\* flattened in order, whose text is not a filler, each once and unchanged;
\* no filler token is in an output segment and an empty input gives an empty
\* output.
CombinedKeepsNonFillerTokens ==
    pc = "merged" =>
        /\ WordsOfSegments(mergeResult) = NonFillersOf(Flatten(combineInput))
        /\ \A k \in 1..Len(mergeResult) : \A p \in 1..Len(TokensOf(mergeResult[k])) :
              IsWordToken(TokensOf(mergeResult[k])[p]) =>
                  TokensOf(mergeResult[k])[p].text \notin Range(markOptions.fillers)
        /\ combineInput = <<>> => mergeResult = <<>>

\* an input of several segments with a filler came out as several segments,
\* one of them merged from two, with a break removed by the cleaner
CombinedSeveralSegmentsWitness ==
    /\ pc = "merged"
    /\ Len(combineInput) >= 2
    /\ \E k \in 1..Len(markInput) : FillerAt(k)
    /\ Len(markedTokens) < Len(marked)
    /\ mergedInputs # {}
    /\ Len(mergeResult) >= 2

\* the tokens of the segments pushed so far, one segment after the other
RECURSIVE TokensOfSegments(_)
TokensOfSegments(segs) ==
    IF segs = <<>> THEN <<>> ELSE Head(segs).tokens \o TokensOfSegments(Tail(segs))

\* C16: for a non-negative maxSecondsPerSegment every segment that
\* groupMarkedTokensIntoSegments emits holds a word token, starts at the
\* start of its first word token and ends at the end of its last one, and a
\* trailing buffer that holds a word token is emitted as the final segment:
\* what is left out of the segments is a run of markers at the end.
SegmentsSpanTheirWords ==
    maxSecondsPerSegment >= 0 =>
        /\ \A k \in 1..Len(segments) :
              LET words == WordTokensOf(segments[k].tokens)
              IN  /\ Len(words) >= 1
                  /\ segments[k].start = words[1].start
                  /\ segments[k].end = Last(words).end
        /\ pc = "grouped" =>
              LET grouped == TokensOfSegments(segments)
              IN  /\ Len(grouped) <= Len(markedTokens)
                  /\ grouped = SubSeq(markedTokens, 1, Len(grouped))
                  /\ \A k \in (Len(grouped) + 1)..Len(markedTokens) :
                        IsDivider(markedTokens[k])

\* a segment of two words or more was closed in the loop and the trailing
\* buffer, with a word token, was emitted after it
TrailingBufferEmittedWitness ==
    /\ pc = "grouped"
    /\ maxSecondsPerSegment >= 0
    /\ Len(segments) >= 2
    /\ Len(WordTokensOf(segments[1].tokens)) >= 2
    /\ closedBefore[Len(segments)] = Len(markedTokens) + 1

\* C17: mergeShortSegmentsWithPrevious leaves its input as it was: after the
\* call every input segment has the start, the end and the token list it
\* had before the call, whether or not segments were merged.
MergeLeavesInputUnchanged ==
    pc = "merged" =>
        \A k \in 1..Len(mergeInput) : heap[mergeInput[k].ref] = heap0[mergeInput[k].ref]

-----------------------------------------------------------------------------
(* Properties of the formatters *)

\* the positions in the tokens of its segment of the word tokens of a line
PositionsOfLine(entry) ==
    LET ts == formatInput[entry.segment].tokens
    IN  {k \in 1..Len(ts) : \E b \in 1..Len(entry.buffer) : entry.buffer[b] = ts[k]}

\* no line of the history has word tokens from both sides of an ALWAYS_BREAK
NoHardBreakInside(entries) ==
    \A e \in 1..Len(entries) :
        \A p, q \in PositionsOfLine(entries[e]) :
            \A r \in p..q : formatInput[entries[e].segment].tokens[r] # ALWAYS_BREAK

\* C18: in formatSegmentsToTimestampedTranscript and in
\* mapSegmentsIntoFormattedSegments an ALWAYS_BREAK always ends the current
\* line: whatever maxSecondsPerLine is, no output line holds word tokens from
\* both sides of an ALWAYS_BREAK of the same segment.
AlwaysBreakEndsLine == NoHardBreakInside(lineBuffers) /\ NoHardBreakInside(partBuffers)

\* with a maxSecondsPerLine that no buffer reaches, a segment with words on
\* both sides of an ALWAYS_BREAK came out as two lines in both formatters
HardBreakSplitLineWitness ==
    /\ pc = "formatted"
    /\ maxSecondsPerLine = 3
    /\ \E s \in 1..Len(formatInput) :
          LET ts == formatInput[s].tokens
          IN  /\ Len(ts) = 3
              /\ IsWordToken(ts[1]) /\ ts[2] = ALWAYS_BREAK /\ IsWordToken(ts[3])
              /\ \E e \in 1..Len(lineBuffers) :
                    lineBuffers[e].segment = s /\ lineBuffers[e].at = 2
              /\ \E e \in 1..Len(partBuffers) :
                    partBuffers[e].segment = s /\ partBuffers[e].at = 2

\* the line of the entry was pushed at a SEGMENT_BREAK
CutAtSegmentBreak(entry) ==
    LET ts == formatInput[entry.segment].tokens
    IN  entry.at <= Len(ts) /\ ts[entry.at] = SEGMENT_BREAK

\* the line of the entry was pushed at an ALWAYS_BREAK or at the end of its segment
CutAtHardBreakOrEnd(entry) ==
    LET ts == formatInput[entry.segment].tokens
    IN  entry.at > Len(ts) \/ ts[entry.at] = ALWAYS_BREAK

\* end of the last buffered token minus start of the first
LineDuration(entry) == Last(entry.buffer).end - entry.buffer[1].start

\* C19, as claimed: in formatSegmentsToTimestampedTranscript a SEGMENT_BREAK
\* ends the current line only when the buffered duration exceeds
\* maxSecondsPerLine and the last buffered token ends in sentence
\* punctuation; a line is cut after a token without sentence punctuation
\* only at an ALWAYS_BREAK or at the end of a segment.
SegmentBreakCutsOnlyWhenExceeded ==
    \A e \in 1..Len(lineBuffers) :
        /\ CutAtSegmentBreak(lineBuffers[e]) =>
              /\ maxSecondsPerLine # NULL
              /\ LineDuration(lineBuffers[e]) > maxSecondsPerLine
              /\ isEndingWithPunctuation(Last(lineBuffers[e].buffer).text)
        /\ ~isEndingWithPunctuation(Last(lineBuffers[e].buffer).text) =>
              CutAtHardBreakOrEnd(lineBuffers[e])

\* C19, amended: in formatSegmentsToTimestampedTranscript a SEGMENT_BREAK
\* ends the current line only when the buffered duration is at least
\* maxSecondsPerLine and the last buffered token ends in sentence
\* punctuation; a line is cut after a token without sentence punctuation
\* only at an ALWAYS_BREAK or at the end of a segment.
SegmentBreakCutsOnlyWhenReached ==
    \A e \in 1..Len(lineBuffers) :
        /\ CutAtSegmentBreak(lineBuffers[e]) =>
              /\ maxSecondsPerLine # NULL
              /\ LineDuration(lineBuffers[e]) >= maxSecondsPerLine
              /\ isEndingWithPunctuation(Last(lineBuffers[e].buffer).text)
        /\ ~isEndingWithPunctuation(Last(lineBuffers[e].buffer).text) =>
              CutAtHardBreakOrEnd(lineBuffers[e])

\* a line was cut at a SEGMENT_BREAK when its duration was maxSecondsPerLine
\* exactly, and words came after it in the segment
CutAtExactDurationWitness ==
    /\ pc = "formatted"
    /\ maxSecondsPerLine > 0
    /\ \E e \in 1..Len(lineBuffers) :
          /\ CutAtSegmentBreak(lineBuffers[e])
          /\ LineDuration(lineBuffers[e]) = maxSecondsPerLine
          /\ lineBuffers[e].at < Len(formatInput[lineBuffers[e].segment].tokens)

-----------------------------------------------------------------------------
(* Properties of the LCS table *)

\* the elements of s at the positions of picked, in order
RECURSIVE PickFrom(_, _, _)
PickFrom(s, picked, k) ==
    IF k > Len(s) THEN <<>>
    ELSE (IF k \in picked THEN <<s[k]>> ELSE <<>>) \o PickFrom(s, picked, k + 1)

SubsequencesOf(s) == {PickFrom(s, picked, 1) : picked \in SUBSET (1..Len(s))}

\* the length of a longest common subsequence, from all the subsequences
LongestCommonLength(s, t) ==
    LET common == SubsequencesOf(s) \cap SubsequencesOf(t)
    IN  CHOOSE n \in 0..Len(s) :
            /\ \E c \in common : Len(c) = n
            /\ \A c \in common : Len(c) <= n

\* C20: extractLcsMatches(buildLcsTable(a, b), a, b) returns index pairs
\* (i, j) that are strictly increasing in both i and j, each with a[i] equal
\* to b[j], and as many as a longest common subsequence of a and b is long,
\* which is also the value in the bottom-right cell of the table.
LcsMatchesAreLongestCommon ==
    pc = "lcsMatches" =>
        /\ \A m \in DOMAIN abMatches :
              /\ m \in 0..(Len(lcsA) - 1)
              /\ abMatches[m] \in 0..(Len(lcsB) - 1)
              /\ lcsA[m + 1] = lcsB[abMatches[m] + 1]
        /\ \A m, n \in DOMAIN abMatches : m < n => abMatches[m] < abMatches[n]
        /\ Cardinality(DOMAIN abMatches) = LongestCommonLength(lcsA, lcsB)
        /\ abTable[Len(lcsA), Len(lcsB)] = LongestCommonLength(lcsA, lcsB)

\* two word lists that differ have a common subsequence of two words or
\* more, shorter than both
LcsSkipsWordsWitness ==
    /\ pc = "lcsMatches"
    /\ Cardinality(DOMAIN abMatches) >= 2
    /\ Cardinality(DOMAIN abMatches) < Len(lcsA)
    /\ Cardinality(DOMAIN abMatches) < Len(lcsB)

-----------------------------------------------------------------------------
(* Properties of the aligner: substitution, insertion and timing *)

\* every anchor pairs a token with the ground-truth word of the same index
AnchorsOnDiagonal == \A k \in 1..Len(anchors) : anchors[k][1] = anchors[k][2]

\* the result has one token for each input token, token k with the start
\* and end of input token k, the k-th word as text and no isUnknown flag
IsPureSubstitution(words) ==
    /\ Len(syncResult) = Len(tokens)
    /\ \A k \in 1..Len(syncResult) :
          /\ k <= Len(words)
          /\ syncResult[k] = [end |-> tokens[k].end, start |-> tokens[k].start,
                              text |-> words[k], isUnknown |-> FALSE]

\* C21: when the number of tokens equals the number of tokenized
\* ground-truth words, syncTokensWithGroundTruth returns the input tokens
\* with the ground-truth words as texts, none flagged isUnknown and none
\* synthesized.
EqualCountsSubstitute ==
    (pc = "synced" /\ Len(tokens) = Len(tokenizeGroundTruth(groundTruth))) =>
        IsPureSubstitution(tokenizeGroundTruth(groundTruth))

\* C21 as amended: with as many tokens as ground-truth words, and every
\* anchor pairing a token with the word of the same index, the result is
\* the input tokens with the ground-truth words as texts, none flagged
\* isUnknown and none synthesized.
EqualCountsSubstituteOnDiagonal ==
    (/\ pc = "synced"
     /\ Len(tokens) = Len(tokenizeGroundTruth(groundTruth))
     /\ AnchorsOnDiagonal) =>
        IsPureSubstitution(tokenizeGroundTruth(groundTruth))

\* three tokens and three words, anchored at the first and the last only,
\* and the middle token got a word that is not its own text
SubstitutedBetweenAnchorsWitness ==
    /\ pc = "synced"
    /\ Len(tokens) = 3
    /\ Len(groundTruthWords) = 3
    /\ anchors = <<<<0, 0>>, <<2, 2>>>>
    /\ normalizeWord(tokens[2].text) # normalizeWord(groundTruthWords[2])
    /\ syncResult[2].text = groundTruthWords[2]

-----------------------------------------------------------------------------
(* The aligner on the sentence of its tests, transcriptUtils.test.ts      *)
(* lines 838-862: the tokens are a part of the timed sentence, the ground *)
(* truth is a prefix of it, or blank.  A second is 2 * Ticks units of     *)
(* time, so that the halves and the shares of a gap are whole numbers.    *)

Seconds == 2 * Ticks

SentenceWords ==
    <<<<"T", "h", "e">>, <<"q", "u", "i", "c", "k">>, <<"b", "r", "o", "w", "n">>,
      <<"f", "o", "x">>, <<"j", "u", "m", "p", "s">>>>

\* the tokens of the test, with the expected (3.5, 5) for the missing 'jumps'
\* and (1, 2) for the missing 'quick'
SentenceTokens ==
    <<[start |-> 0, end |-> Seconds, text |-> SentenceWords[1]],
      [start |-> Seconds, end |-> 2 * Seconds, text |-> SentenceWords[2]],
      [start |-> 2 * Seconds, end |-> 3 * Seconds, text |-> SentenceWords[3]],
      [start |-> 3 * Seconds, end |-> 3 * Seconds + Ticks, text |-> SentenceWords[4]],
      [start |-> 3 * Seconds + Ticks, end |-> 5 * Seconds, text |-> SentenceWords[5]]>>

\* ground truths of white space only
BlankTexts == {<<" ">>, <<" ", " ">>}

InitSentence ==
    /\ pc = "sync"
    /\ \E heard \in SUBSET (1..Len(SentenceTokens)) :
          tokens = PickFrom(SentenceTokens, heard, 1)
    /\ \/ \E n \in 0..Len(SentenceWords) :
              groundTruth = JoinWithSpace(SubSeq(SentenceWords, 1, n))
       \/ groundTruth \in BlankTexts
    /\ groundTruthWords = <<>>
    /\ anchors = <<>>
    /\ anchorIndex = 1
    /\ syncResult = <<>>
    /\ lastTokenIndex = -1
    /\ lastGtIndex = -1
    /\ applied = <<>>
    /\ CleanupIdle /\ GroupIdle /\ MergeIdle /\ HintIdle
    /\ MarkIdle /\ FormatIdle /\ LcsIdle

SpecSentence == InitSentence /\ [][NextSync]_vars

\* the tokens (0, 1, The), (2, 3, brown), (3, 3.5, fox) against the whole
\* sentence, after the aligner returned
TheBrownFoxAligned ==
    /\ pc = "synced"
    /\ tokens = PickFrom(SentenceTokens, {1, 3, 4}, 1)
    /\ groundTruth = JoinWithSpace(SentenceWords)

\* C22: the tokens (0, 1, The), (2, 3, brown), (3, 3.5, fox) aligned with
\* 'The quick brown fox jumps' give the five words, The, brown and fox with
\* their original timings, quick and jumps synthesized, each within the
\* span left by its neighbours.
QuickAndJumpsSynthesized ==
    TheBrownFoxAligned =>
        /\ TextsOf(syncResult) = SentenceWords
        /\ \A k \in 1..5 : ~syncResult[k].isUnknown
        /\ \A k \in {1, 3, 4} :
              /\ syncResult[k].start = SentenceTokens[k].start
              /\ syncResult[k].end = SentenceTokens[k].end
        /\ syncResult[1].end <= syncResult[2].start
        /\ syncResult[2].start < syncResult[2].end
        /\ syncResult[2].end <= syncResult[3].start
        /\ syncResult[4].end <= syncResult[5].start
        /\ syncResult[5].start < syncResult[5].end

\* C22 as amended: the same alignment gives the five words, with quick and
\* fox synthesized: quick fills the second between The and brown, fox is
\* the empty interval at the end of brown, The and brown keep their timings
\* and the input token (3, 3.5) carries the text jumps.
QuickAndFoxSynthesized ==
    TheBrownFoxAligned =>
        syncResult =
            <<[start |-> 0, end |-> Seconds, text |-> SentenceWords[1], isUnknown |-> FALSE],
              [start |-> Seconds, end |-> 2 * Seconds, text |-> SentenceWords[2], isUnknown |-> FALSE],
              [start |-> 2 * Seconds, end |-> 3 * Seconds, text |-> SentenceWords[3], isUnknown |-> FALSE],
              [start |-> 3 * Seconds, end |-> 3 * Seconds, text |-> SentenceWords[4], isUnknown |-> FALSE],
              [start |-> 3 * Seconds, end |-> 3 * Seconds + Ticks, text |-> SentenceWords[5],
               isUnknown |-> FALSE]>>

\* the aligner returned five tokens for The, brown, fox and the whole
\* sentence, from the anchors (0, 0), (1, 2) and the forced (2, 4)
TheBrownFoxWitness ==
    /\ TheBrownFoxAligned
    /\ anchors = <<<<0, 0>>, <<1, 2>>, <<2, 4>>>>
    /\ Len(syncResult) = 5

\* C23: on degenerate input syncTokensWithGroundTruth returns without
\* failing: an empty token list gives an empty list, and a ground truth
\* without a word gives the input tokens, in order, each with its text,
\* start and end and with isUnknown true.
DegenerateInputsReturned ==
    /\ (pc = "sync" /\ (Len(tokens) = 0 \/ tokenizeGroundTruth(groundTruth) = <<>>)) =>
          ENABLED SyncTokenize
    /\ (pc = "synced" /\ Len(tokens) = 0) => syncResult = <<>>
    /\ (pc = "synced" /\ Len(tokens) > 0 /\ tokenizeGroundTruth(groundTruth) = <<>>) =>
          /\ Len(syncResult) = Len(tokens)
          /\ \A k \in 1..Len(tokens) :
                syncResult[k] = [end |-> tokens[k].end, start |-> tokens[k].start,
                                 text |-> tokens[k].text, isUnknown |-> TRUE]

\* several tokens against a ground truth of white space, after the return
BlankGroundTruthWitness ==
    /\ pc = "synced"
    /\ Len(tokens) > 1
    /\ groundTruth \in BlankTexts
    /\ Len(syncResult) = Len(tokens)

\* each token starts no later than it ends and no earlier than the token
\* before it ends
OrderedInTime(ts) ==
    /\ \A k \in 1..Len(ts) : ts[k].start <= ts[k].end
    /\ \A k \in 2..Len(ts) : ts[k].start >= ts[k - 1].end

\* C27: when the input tokens are ordered and do not overlap in time, the
\* tokens returned by syncTokensWithGroundTruth, the synthesized ones
\* included, are ordered and do not overlap: each starts no earlier than
\* the token before it ends.
OutputOrderedInTime ==
    (pc = "synced" /\ OrderedInTime(tokens)) =>
        \A k \in 2..Len(syncResult) : syncResult[k].start >= syncResult[k - 1].end

\* the input tokens are found at the positions picked of the result, in
\* order, each with its start and end, and with its text where it is
\* flagged; the tokens at the other positions, the synthesized ones, are
\* not flagged
InputsFoundAt(picked) ==
    LET found == PickFrom(syncResult, picked, 1)
    IN  /\ Len(found) = Len(tokens)
        /\ \A k \in 1..Len(tokens) :
              /\ found[k].start = tokens[k].start
              /\ found[k].end = tokens[k].end
              /\ found[k].isUnknown => found[k].text = tokens[k].text
        /\ \A k \in (1..Len(syncResult)) \ picked : ~syncResult[k].isUnknown

\* C28: every input token is in the result of syncTokensWithGroundTruth
\* once, in its original order and with its start and end; a token flagged
\* isUnknown keeps its text, and no synthesized token is flagged.
InputTokensKept ==
    pc = "synced" => \E picked \in SUBSET (1..Len(syncResult)) : InputsFoundAt(picked)

\* the aligner returned a synthesized token and a flagged one
InsertedAndUnknownWitness ==
    /\ pc = "synced"
    /\ Len(groundTruthWords) > 0
    /\ Len(syncResult) > Len(tokens)
    /\ \E k \in 1..Len(syncResult) : syncResult[k].isUnknown

-----------------------------------------------------------------------------
(* The miner on a phrase said several times, as in hints.test.ts lines    *)
(* 51-66 and 106-126, under every combination of its options.             *)

MineTexts == {<<"a">>, <<"b">>, <<"c">>, <<".">>}

RECURSIVE RepeatedPhrase(_, _)
RepeatedPhrase(texts, times) ==
    IF times = 0 THEN <<>> ELSE texts \o RepeatedPhrase(texts, times - 1)

MineOptions ==
    [minN : {1, 2}, maxN : {1, 3}, minCount : {1, 2}, topK : {1, 2, Infinity},
     dedupe : {"closed", "none"}, stopwords : {{}, {<<"a">>}},
     occurrenceCap : {1, OCCURRENCE_CAP_FOR_DEDUPE}]

InitMine ==
    /\ pc = "hints"
    /\ \E texts \in SeqsUpTo(MineTexts, MaxPhrase), times \in 1..MaxRepeats :
          hintTokens = HintTokensOfTexts(RepeatedPhrase(texts, times))
    /\ options \in MineOptions
    /\ normalizedTokens = <<>>
    /\ counts = <<>>
    /\ candidates = <<>>
    /\ removable = {}
    /\ removedBy = {}
    /\ hints = <<>>
    /\ SegmentsIdle
    /\ CleanupIdle /\ GroupIdle /\ MergeIdle /\ SyncIdle
    /\ MarkIdle /\ FormatIdle /\ LcsIdle

SpecMine == InitMine /\ [][NextHints]_vars

-----------------------------------------------------------------------------
(* Properties of generateHintsFromTokens *)

\* the start positions (0-based) of the n-gram key in the normalized tokens
\* of the stream mined
StartsOf(key) ==
    LET normalized == normalizeTokenStream(hintTokens)
    IN  {p \in 0..(Len(normalized) - Len(key)) : Slice(normalized, p, p + Len(key)) = key}

\* the n-gram key is the normalizedPhrase of a returned hint
IsReturned(key) == \E h \in 1..Len(hints) : hints[h].normalizedPhrase = JoinWithSpace(key)

\* the returned hint of the n-gram key
HintOf(key) == hints[CHOOSE h \in 1..Len(hints) : hints[h].normalizedPhrase = JoinWithSpace(key)]

\* longKey is a candidate that is not truncated, holds subKey at the offset,
\* has its count, and starts exactly offset before each start of subKey
ClosedOver(longKey, subKey, offset) ==
    /\ Len(longKey) > Len(subKey)
    /\ offset + Len(subKey) <= Len(longKey)
    /\ Slice(longKey, offset, offset + Len(subKey)) = subKey
    /\ ~StatsOf(longKey).occurrencesTruncated
    /\ StatsOf(longKey).count = StatsOf(subKey).count
    /\ {p + offset : p \in StartsOf(longKey)} = StartsOf(subKey)

\* the stream a b c a b c
IsAbcAbc == [k \in 1..Len(hintTokens) |-> hintTokens[k].text]
                = <<<<"a">>, <<"b">>, <<"c">>, <<"a">>, <<"b">>, <<"c">>>>

\* C24: under closed dedupe, a candidate of two words or more is not
\* returned by generateHintsFromTokens when a longer candidate that is not
\* truncated holds it at an offset, has its count and starts at its start
\* positions shifted back by that offset; for a b c a b c with minCount 2,
\* 'a b c' is returned with count 2 and 'a b' is not returned.
ClosedSubphrasesNotReturned ==
    (pc = "mined" /\ options.dedupe = "closed") =>
        /\ \A subKey \in CandidateKeys, longKey \in CandidateKeys :
              (/\ Len(subKey) >= 2
               /\ \E offset \in 0..Len(longKey) : ClosedOver(longKey, subKey, offset)) =>
                  ~IsReturned(subKey)
        /\ (/\ IsAbcAbc
            /\ options.minCount = 2
            /\ options.minN <= 2
            /\ options.maxN = 3
            /\ options.topK = Infinity
            /\ options.occurrenceCap = OCCURRENCE_CAP_FOR_DEDUPE) =>
               /\ IsReturned(<<<<"a">>, <<"b">>, <<"c">>>>)
               /\ HintOf(<<<<"a">>, <<"b">>, <<"c">>>>).count = 2
               /\ ~IsReturned(<<<<"a">>, <<"b">>>>)

\* a b c a b c mined with minCount 2 under closed dedupe: 'b c' is a
\* candidate and is not returned
AbcAbcWitness ==
    /\ pc = "mined"
    /\ options.dedupe = "closed"
    /\ options.minCount = 2
    /\ options.topK = Infinity
    /\ IsAbcAbc
    /\ <<<<"b">>, <<"c">>>> \in CandidateKeys
    /\ IsReturned(<<<<"a">>, <<"b">>, <<"c">>>>)
    /\ ~IsReturned(<<<<"b">>, <<"c">>>>)

\* x comes before y in the order of the results: the larger count, then the
\* longer phrase, then the normalizedPhrase that localeCompare puts first
RanksAbove(x, y) ==
    IF x.count # y.count THEN x.count > y.count
    ELSE IF x.length # y.length THEN x.length > y.length
    ELSE localeCompare(x.normalizedPhrase, y.normalizedPhrase) < 0

\* the candidates that closed dedupe left, as count, length and phrase
RankedCandidates ==
    {[count |-> StatsOf(key).count, length |-> Len(key),
      normalizedPhrase |-> JoinWithSpace(key)] : key \in CandidateKeys \ removable}

RankOf(hint) ==
    [count |-> hint.count, length |-> hint.length, normalizedPhrase |-> hint.normalizedPhrase]

\* C25: the list returned by generateHintsFromTokens is in the order count
\* descending, length descending, normalizedPhrase ascending; it is the
\* first topK entries of the candidates in that order: it has no more than
\* topK hints and leaves out no candidate that comes before a returned one.
HintsAreTheTopRanked ==
    pc = "mined" =>
        /\ \A k \in 2..Len(hints) : RanksAbove(hints[k - 1], hints[k])
        /\ \A k \in 1..Len(hints) : RankOf(hints[k]) \in RankedCandidates
        /\ Len(hints) = IF options.topK = Infinity THEN Cardinality(RankedCandidates)
                        ELSE Min(options.topK, Cardinality(RankedCandidates))
        /\ \A left \in RankedCandidates :
              (\A k \in 1..Len(hints) : RankOf(hints[k]) # left) =>
                  \A k \in 1..Len(hints) : RanksAbove(hints[k], left)

\* two hints of the same count returned, the longer first, and a third
\* candidate cut off by topK
CutAtTopKWitness ==
    /\ pc = "mined"
    /\ options.topK = 2
    /\ Len(hints) = 2
    /\ Cardinality(RankedCandidates) > 2
    /\ hints[1].count = hints[2].count
    /\ hints[1].length > hints[2].length

\* the n-grams of the stream mined that generateHintsFromTokens is to
\* report: of a length from minN to maxN, without an empty word, not made
\* of stopwords only, and starting at minCount positions or more
ReportedNgrams ==
    LET normalized == normalizeTokenStream(hintTokens)
    IN  {key \in {Slice(normalized, p, p + n) :
                     n \in options.minN..options.maxN, p \in 0..Len(normalized)} :
            /\ Len(key) \in options.minN..options.maxN
            /\ \A k \in 1..Len(key) : key[k] # <<>>
            /\ \E k \in 1..Len(key) : key[k] \notin options.stopwords
            /\ Cardinality(StartsOf(key)) >= options.minCount}

-----------------------------------------------------------------------------
(* generateHintsFromSegments on a few short segments, hints.test.ts lines *)
(* 234-321, under both boundary strategies.                               *)

SegmentTexts == {<<"a">>, <<"b">>}

SegmentOptions ==
    [minN : {1, 2}, maxN : {2}, minCount : {1, 2}, topK : {1, Infinity},
     dedupe : {"closed"}, stopwords : {{}}, occurrenceCap : {OCCURRENCE_CAP_FOR_DEDUPE},
     boundaryStrategy : {"segment", "none"}]

InitSegments ==
    /\ pc = "segments"
    /\ \E textLists \in SeqsUpTo(SeqsUpTo(SegmentTexts, MaxMineSegmentLen), MaxMineSegments) :
          hintSegments = [k \in 1..Len(textLists) |-> HintTokensOfTexts(textLists[k])]
    /\ options \in SegmentOptions
    /\ combined = <<>>
    /\ segmentIndex = 1
    /\ hintTokens = <<>>
    /\ normalizedTokens = <<>>
    /\ counts = <<>>
    /\ candidates = <<>>
    /\ removable = {}
    /\ removedBy = {}
    /\ hints = <<>>
    /\ CleanupIdle /\ GroupIdle /\ MergeIdle /\ SyncIdle
    /\ MarkIdle /\ FormatIdle /\ LcsIdle

NextSegments == SegmentsFlat \/ SegmentsMineOne \/ SegmentsReturn

SpecSegments == InitSegments /\ [][NextSegments]_vars

-----------------------------------------------------------------------------
(* Properties of generateHintsFromSegments *)

\* the normalized phrase is a run of the normalized tokens of one segment
OccursInsideSegment(normalizedPhrase) ==
    \E s \in 1..Len(hintSegments) :
        LET normalized == normalizeTokenStream(hintSegments[s])
        IN  \E n \in 1..Len(normalized), p \in 0..Len(normalized) :
                /\ p + n <= Len(normalized)
                /\ JoinWithSpace(Slice(normalized, p, p + n)) = normalizedPhrase

\* the count that mining segment s alone gives the phrase, 0 when it does
\* not report it
CountInSegment(s, normalizedPhrase) ==
    LET mined == generateHintsFromTokens(hintSegments[s], options)
        k == IndexOfPhrase(mined, normalizedPhrase)
    IN  IF k = 0 THEN 0 ELSE mined[k].count

RECURSIVE CountOverSegments(_, _)
CountOverSegments(s, normalizedPhrase) ==
    IF s = 0 THEN 0
    ELSE CountInSegment(s, normalizedPhrase) + CountOverSegments(s - 1, normalizedPhrase)

\* C26: with boundaryStrategy 'segment', every phrase returned by
\* generateHintsFromSegments lies inside one segment, no normalized phrase
\* is returned twice, the count of each is the sum of the counts that
\* mining each segment alone reports for it, and the list is in the order
\* count descending, length descending, normalizedPhrase ascending.
SegmentHintsMergedAndSorted ==
    (pc = "segmentsMined" /\ options.boundaryStrategy = "segment") =>
        /\ \A k \in 1..Len(hints) :
              /\ OccursInsideSegment(hints[k].normalizedPhrase)
              /\ hints[k].count = CountOverSegments(Len(hintSegments), hints[k].normalizedPhrase)
              /\ \A other \in 1..Len(hints) :
                    hints[other].normalizedPhrase = hints[k].normalizedPhrase => other = k
        /\ \A k \in 2..Len(hints) : RanksAbove(hints[k - 1], hints[k])

\* two segments report the same phrase, its counts are added, and the
\* phrase 'a b' that only the end of one segment and the start of the next
\* would form is not returned
CountsAddedAcrossSegmentsWitness ==
    /\ pc = "segmentsMined"
    /\ options.boundaryStrategy = "segment"
    /\ options.minCount = 1
    /\ options.topK = Infinity
    /\ Len(hintSegments) = 2
    /\ Len(hintSegments[1]) > 0
    /\ Len(hintSegments[2]) > 0
    /\ Last(hintSegments[1]).text = <<"a">>
    /\ hintSegments[2][1].text = <<"b">>
    /\ \E k \in 1..Len(hints) :
          /\ CountInSegment(1, hints[k].normalizedPhrase) > 0
          /\ CountInSegment(2, hints[k].normalizedPhrase) > 0
          /\ hints[k].count > CountInSegment(1, hints[k].normalizedPhrase)
    /\ \A k \in 1..Len(hints) : hints[k].normalizedPhrase # <<"a", " ", "b">>

\* C30: under either boundary strategy the list returned by
\* generateHintsFromSegments has no more than topK hints.
SegmentHintsWithinTopK ==
    (pc = "segmentsMined" /\ options.topK # Infinity) => Len(hints) <= options.topK

====
